---- MODULE Spec2Model ----
(***************************************************************************)
(* Command validation pipeline of CommandsService (postCommand and its    *)
(* per-command handlers) with the detached Command Executor operations;   *)
(* the event handlers of the Sessions and Locations modules; the token    *)
(* functions of TokensMapper and TokensService; the cost and idle-time     *)
(* calculation of BaseTransactionMapper.                                  *)
(***************************************************************************)
EXTENDS Integers, Sequences, FiniteSets, TLC

\* ------------------------------------------------------------------ bounds

\* Executor operations of earlier commands that may still be pending when a
\* new command is received.
MaxPending == 1

\* ------------------------------------------------------------------ values

\* An absent (undefined / null) field.
NoValue == "undefined"

\* No response was returned (postCommand's promise rejected).
NoResponse == [result |-> "none", timeout |-> 0, reason |-> NoValue]

CommandTypes ==
  {"CANCEL_RESERVATION", "RESERVE_NOW", "START_SESSION", "STOP_SESSION",
   "UNLOCK_CONNECTOR", "OTHER"}

CommandResponseTypes == {"ACCEPTED", "REJECTED", "NOT_SUPPORTED", "UNKNOWN_SESSION"}

\* config.commands.timeout: any configured value.
Timeouts == {30, 60}

CountryCodes == {"NL", "DE"}
PartyIds == {"AAA", "BBB"}

\* Identity of a roaming partner (its tenant row may lack identifiers).
\* id and tenantId are numbers; 0 stands for a falsy (absent) identifier.
TenantPartners ==
  { [countryCode |-> i[1], partyId |-> i[2], id |-> pid, tenantId |-> tid] :
      i \in {<<"NL", "AAA">>, <<"DE", "BBB">>},
      pid \in {0, 7}, tid \in {0, 1} }

Tokens == [country_code : CountryCodes, party_id : PartyIds]
NoToken == [country_code |-> NoValue, party_id |-> NoValue]

EvseUids == {NoValue, "S1-1"}
LocationIdStrings == {"1", "2"}
ConnectorIdStrings == {NoValue, "1"}
SessionIds == {"1", "x"}

\* Connector rows of a station: database id and OCPP connectorId (0 is falsy).
ConnectorLists ==
  { <<>>,
    <<[id |-> 1, connectorId |-> 2]>>,
    <<[id |-> 2, connectorId |-> 1], [id |-> 1, connectorId |-> 0]>> }

ChargingStations ==
  [locationId : {1, 2}, isOnline : BOOLEAN, connectors : ConnectorLists]

\* Outcome of a data-store request: it throws, or returns the rows found.
Failed == [throws |-> TRUE, rows |-> <<>>]
Rows(r) == [throws |-> FALSE, rows |-> r]

StationResults ==
  {Failed, Rows(<<>>)} \cup { Rows(<<s>>) : s \in ChargingStations }

\* An optional reference is a sequence of length 0 (absent) or 1.
Authorizations ==
  { <<>>, <<[tenantPartner |-> <<>>]>> } \cup
  { <<[tenantPartner |-> <<[countryCode |-> i[1], partyId |-> i[2]]>>]>> :
      i \in {<<"NL", "AAA">>, <<"DE", "AAA">>} }

Transactions ==
  [isActive : BOOLEAN, authorization : Authorizations,
   chargingStation : [isOnline : BOOLEAN]]

TransactionResults ==
  {Failed, Rows(<<>>)} \cup { Rows(<<t>>) : t \in Transactions }

\* tokensService.upsertToken resolves or throws.
UpsertResults == {"ok", "throws"}

\* EXTRACT_STATION_ID(evse_uid) on a present evse_uid yields the station id; on
\* an absent one it fails or yields some id (its code is not part of the
\* pipeline), so both outcomes are kept.
ExtractResults == {"ok", "throws"}

\* The outcomes of the external calls one postCommand may make: upsert,
\* extract, station, transaction.
NoStore ==
  [upsert |-> "ok", extract |-> "ok", station |-> Rows(<<>>),
   transaction |-> Rows(<<>>)]

\* Number.prototype.toString for the small ids of the model.
NumberToString(n) ==
  CASE n = 0 -> "0" [] n = 1 -> "1" [] n = 2 -> "2" [] n = 3 -> "3"
    [] OTHER -> "n"

\* ------------------------------------------------------------------- state

VARIABLES
  configTimeout,  \* config.commands.timeout
  command,        \* the last command received: type, payload, tenantPartner
  store,          \* what the external calls of this command answered
  outcome,        \* what postCommand did: response, thrown, stages, calls, logs
  executorOps,    \* detached executor operations still pending, per operation
  settled,        \* the executor operation that settled last, and what was logged
  unhandled       \* an executor rejection escaped its .catch handler

VARIABLES
  handled,        \* the event whose handler ran last: payload, answers, effects
  inserts,        \* the running handleTransactionInsert invocations
  cache           \* the authorization reference cached under the token id

VARIABLES
  token,          \* a token function, the input it is applied to, its outputs
  resolutions,    \* the running handleGroupAuthorization calls
  groupStore      \* the store's group authorizations of one (group id, partner)

VARIABLES
  pricing         \* a cost function of the mapper, its input, answers and result

VARIABLES
  upserts,            \* the running upsertToken and patchToken calls
  authorizationStore  \* the store's token authorizations of one partner

VARIABLES
  redis           \* the keys of the Redis cache and a running RedisCache.onChange

commandVars ==
  <<configTimeout, command, store, outcome, executorOps, settled, unhandled>>

eventVars == <<handled, inserts, cache>>

tokenVars == <<token, resolutions, groupStore>>

mapperVars == <<pricing>>

upsertVars == <<upserts, authorizationStore>>

redisVars == <<redis>>

vars == <<commandVars, eventVars, tokenVars, mapperVars, upsertVars, redisVars>>

\* No token function is being applied.
NoInput ==
  [uid |-> <<NoValue>>, newPartial |-> <<>>, oldComplete |-> <<>>, type |-> NoValue,
   contract_id |-> NoValue, visual_number |-> NoValue, issuer |-> NoValue,
   valid |-> NoValue, language |-> NoValue, whitelist |-> NoValue,
   group_id |-> NoValue, last_updated |-> 0, existing |-> <<>>]

NoTokenCall == [fn |-> "none", input |-> NoInput, outputs |-> <<>>]

\* Calls of upsertToken or patchToken that may overlap, carrying the same
\* group_id for the same partner.
Callers == {"c1", "c2"}

\* A call of handleGroupAuthorization: the request it is suspended on, the
\* number of rows its query returned, the id it returned, whether it created
\* a group authorization, whether it threw.
IdleResolution ==
  [pc |-> "idle", found |-> 0, id |-> 0, created |-> FALSE, failed |-> FALSE]

NoTokenCalls ==
  /\ token = NoTokenCall
  /\ resolutions = [c \in Callers |-> IdleResolution]
  /\ groupStore = [unique |-> FALSE, rows |-> <<>>]

\* No event is being handled.
NoHandled ==
  [event |-> <<>>, handler |-> "none", payload |-> <<>>, answers |-> <<>>,
   calls |-> <<>>, carried |-> <<>>, logs |-> <<>>, raised |-> FALSE]

\* The change notifications of the message bus: event type and object type.
DtoEventTypes == {"INSERT", "UPDATE"}

DtoEventObjectTypes ==
  {"Transaction", "MeterValue", "Location", "ChargingStation", "Evse", "Connector"}

ChangeEvents == DtoEventTypes \X DtoEventObjectTypes

\* Invocations of handleTransactionInsert that may overlap: two deliveries
\* (of one event, or of two events) whose transactions carry the same token.
InsertHandlers == {"h1", "h2"}

\* An invocation of handleTransactionInsert: the awaited call it is suspended
\* on, its fullTransactionDto (the event payload until the fetch returns), the
\* authorization reference it read, the event it was invoked for, whether its
\* payload has a tenant, the transaction of its payload (until a fetched
\* transaction takes its place) and the rows that its fetch returned, how
\* its cache read ended, the state of its un-awaited cache.remove and of its
\* customData mutation, the calls it issued in order,
\* the body of the PUT it sent, what it logged, and whether its promise
\* rejected.
IdleInsert ==
  [pc |-> "idle", dto |-> [idToken |-> FALSE, customData |-> <<>>],
   event |-> <<>>, tenant |-> FALSE, payload |-> <<>>, fetched |-> <<>>,
   read |-> "none", reference |-> NoValue,
   removal |-> "none", persisted |-> "none",
   steps |-> <<>>, put |-> <<>>, logs |-> <<>>, raised |-> FALSE]

\* The event modules after construction: nothing was handled yet and nothing
\* is cached.
NoEvents ==
  /\ handled = NoHandled
  /\ inserts = [h \in InsertHandlers |-> IdleInsert]
  /\ cache = NoValue

\* A JavaScript number is identified by the fraction num / den (den > 0) it
\* is written as; sums, products and quotients are taken exactly, and the
\* rounding of Math.floor(x * 100) is computed on the double nearest to x. An
\* absent number (undefined or null) has den = 0.
NoNumber == [num |-> 0, den |-> 0]
Zero == [num |-> 0, den |-> 1]

\* An absent timestamp is <<>>, a present one <<ms>>.
NoTransactionDto ==
  [locationId |-> 0, totalKwh |-> NoNumber, startTime |-> <<>>, endTime |-> <<>>,
   stationId |-> NoValue, evseId |-> 0, connectorId |-> 0, tenantId |-> 0]

NoTariff ==
  [present |-> FALSE, pricePerKwh |-> NoNumber, pricePerMin |-> NoNumber,
   pricePerSession |-> NoNumber]

\* What the billing query and the status-notification query answered.
NoPricingAnswers ==
  [billing |-> [throws |-> FALSE, rows |-> <<>>],
   status |-> [throws |-> FALSE, rows |-> <<>>]]

\* No result yet.
NoPrice ==
  [done |-> FALSE, thrown |-> FALSE, value |-> NoNumber, baseCost |-> NoNumber,
   idleCost |-> NoNumber, calls |-> <<>>, logs |-> <<>>]

NoPricing ==
  [fn |-> "none", transaction |-> NoTransactionDto, tariff |-> NoTariff,
   answers |-> NoPricingAnswers, result |-> NoPrice]

\* No cost is being calculated.
NoPrices == pricing = NoPricing

\* A call of upsertToken or patchToken: the request it is suspended on, the
\* token it carries, whether it threw.
IdleUpsert ==
  [pc |-> "idle", fn |-> "none", idToken |-> <<NoValue>>, last_updated |-> 0,
   thrown |-> FALSE]

\* No token is being upserted or patched and no authorization is stored.
NoUpserts ==
  /\ upserts = [c \in Callers |-> IdleUpsert]
  /\ authorizationStore = [unique |-> FALSE, rows |-> <<>>]

\* The keys of Redis that the model follows: the key "k" under the prefix of
\* a namespace, and under that prefix twice. A key is the sequence of the
\* segments that ':' separates.
RedisKeys ==
  { <<n, "k">> : n \in {"default", "cmd"} } \cup { <<n, n, "k">> : n \in {"default", "cmd"} }

\* An invocation of RedisCache.onChange: where initialize() stands, the key
\* and namespace as passed and as reassigned, the subscription to the
\* channel, isResolved, the timer, the get calls in flight by what started
\* them, the value its promise resolved with and what resolved it, how often
\* resolve was called, and what was logged.
NoChange ==
  [pc |-> "idle", passed |-> [key |-> <<>>, namespace |-> NoValue],
   key |-> <<>>, namespace |-> NoValue, subscription |-> "none",
   isResolved |-> FALSE, timer |-> "none", gets |-> [set |-> 0, timeout |-> 0],
   promise |-> <<>>, resolvedBy |-> "none", resolves |-> 0, logs |-> {}]

\* Redis holds no key (values: the value of each key; expiring: the keys
\* with a time to live) and no onChange is running.
NoChanges ==
  redis = [values |-> [k \in RedisKeys |-> NoValue], expiring |-> {},
           change |-> NoChange]

ExecutorOperations == {"executeStartSession", "executeStopSession", "executeUnlockConnector"}

\* ------------------------------------------------------- handler results

\* A handler's result: the response returned (or thrown = TRUE), the guard
\* stages it evaluated in order, the external calls it made in order, the
\* messages it logged.
Returned(response, stages, calls, logs) ==
  [response |-> response, thrown |-> FALSE, stages |-> stages,
   calls |-> calls, logs |-> logs]

Thrown(stages, calls, logs) ==
  [response |-> NoResponse, thrown |-> TRUE, stages |-> stages,
   calls |-> calls, logs |-> logs]

\* The response object the handlers build: the data {result, timeout} and
\* the reason passed to ResponseGenerator.
CommandResponse(result, reason) ==
  [result |-> result, timeout |-> configTimeout, reason |-> reason]

Call(name) == [op |-> name, connector_id |-> NoValue]
ExecutorCall(name, connector_id) == [op |-> name, connector_id |-> connector_id]

IsExecutorCall(c) == c.op \in ExecutorOperations
ExecutorCalls(calls) == SelectSeq(calls, IsExecutorCall)

\* ------------------------------------------------------------ guard stages

\* A JavaScript string that is falsy: absent or empty.
Falsy(s) == s \in {NoValue, ""}

\* Variant: the token is saved for whichever partner sends it.
CredentialsMismatchNever(tenantPartner, country_code, party_id) == FALSE

\* Variant: the country code is not compared.
CredentialsMismatchPartyOnly(tenantPartner, country_code, party_id) ==
  tenantPartner.partyId # party_id

\* tenantPartner.countryCode !== country_code || tenantPartner.partyId !== party_id
CredentialsMismatch(tenantPartner, country_code, party_id) ==
  \/ tenantPartner.countryCode # country_code
  \/ tenantPartner.partyId # party_id

\* Variant: the tenant identifiers are not checked before the upsert.
ValidateTokenAndNormalizeTokenUnchecked(tenantPartner, upsert) ==
  [threw |-> (upsert = "throws"),
   calls |-> <<[op |-> "upsertToken", connector_id |-> NoValue]>>]

\* validateTokenAndNormalizeToken: throws without tenant identifiers, else
\* calls tokensService.upsertToken, which resolves or throws.
ValidateTokenAndNormalizeToken(tenantPartner, upsert) ==
  IF tenantPartner.tenantId = 0 \/ tenantPartner.id = 0
  THEN [threw |-> TRUE, calls |-> <<>>]
  ELSE [threw |-> (upsert = "throws"), calls |-> <<Call("upsertToken")>>]

\* Variant: the station's location is not compared with the claimed one.
StationUnknownAnyLocation(rows, location_id) == Len(rows) = 0

\* No station row, or the row's locationId is not the claimed location_id.
StationUnknown(rows, location_id) ==
  \/ Len(rows) = 0
  \/ NumberToString(rows[1].locationId) # location_id

\* Variant: the station is taken to be online.
StationOfflineNever(chargingStation) == FALSE

\* !chargingStation.isOnline
StationOffline(chargingStation) == ~chargingStation.isOnline

\* connectors.find(value => value.id?.toString() === connector_id)
FindConnector(connectors, connector_id) ==
  LET hits == { i \in 1..Len(connectors) :
                  NumberToString(connectors[i].id) = connector_id }
  IN  IF hits = {} THEN <<>>
      ELSE <<connectors[CHOOSE i \in hits : \A j \in hits : i <= j]>>

\* Variant: the external identifier is dispatched as it came.
KeepConnectorId(matchingConnector, connector_id) == connector_id

\* The connector_id handed to the executor once a connector matched.
AlignConnectorId(matchingConnector, connector_id) ==
  IF matchingConnector.connectorId # 0
     /\ NumberToString(matchingConnector.id) = connector_id
  THEN NumberToString(matchingConnector.connectorId)
  ELSE connector_id

\* Variant: Accepted is returned but the executor operation is never started.
DispatchWithoutExecutor(operation, connector_id, stages, calls, logs) ==
  Returned([result |-> "ACCEPTED", timeout |-> configTimeout, reason |-> NoValue],
           Append(stages, "dispatch"), calls, logs)

\* The executor operation is started with .catch attached and not awaited;
\* the handler returns Accepted at once.
Dispatch(operation, connector_id, stages, calls, logs) ==
  Returned(CommandResponse("ACCEPTED", NoValue),
           Append(stages, "dispatch"),
           Append(calls, ExecutorCall(operation, connector_id)),
           logs)

\* ----------------------------------------------------------------- handlers

\* Variant: the stub checks the credentials as ReserveNow does.
HandleCancelReservationValidated(cancelReservation, tenantPartner, st) ==
  IF CredentialsMismatch(tenantPartner, cancelReservation.token.country_code,
                         cancelReservation.token.party_id)
  THEN Returned([result |-> "REJECTED", timeout |-> configTimeout,
                 reason |-> "Token information does not match credentials"],
                <<"credential_match">>, <<>>,
                {"Token information does not match credentials"})
  ELSE Returned([result |-> "NOT_SUPPORTED", timeout |-> configTimeout,
                 reason |-> NoValue],
                <<"credential_match">>, <<>>, {})

HandleCancelReservation(cancelReservation, tenantPartner, st) ==
  Returned(CommandResponse("NOT_SUPPORTED", NoValue), <<>>, <<>>, {})

\* Variant: NotSupported is answered before the token is saved.
HandleReserveNowUnsaved(reserveNow, tenantPartner, st) ==
  IF CredentialsMismatch(tenantPartner, reserveNow.token.country_code,
                         reserveNow.token.party_id)
  THEN Returned(CommandResponse("REJECTED", "Token information does not match credentials"),
                <<"credential_match">>, <<>>,
                {"Token information does not match credentials"})
  ELSE Returned(CommandResponse("NOT_SUPPORTED", NoValue),
                <<"credential_match">>, <<>>, {})

HandleReserveNow(reserveNow, tenantPartner, st) ==
  IF CredentialsMismatch(tenantPartner, reserveNow.token.country_code,
                         reserveNow.token.party_id)
  THEN Returned(CommandResponse("REJECTED", "Token information does not match credentials"),
                <<"credential_match">>, <<>>,
                {"Token information does not match credentials"})
  ELSE
  LET saved == ValidateTokenAndNormalizeToken(tenantPartner, st.upsert) IN
  IF saved.threw
  THEN Returned(CommandResponse("REJECTED", "Unable to save token"),
                <<"credential_match", "token_upsert">>, saved.calls,
                {"Failed to save token before ReserveNow"})
  ELSE Returned(CommandResponse("NOT_SUPPORTED", NoValue),
                <<"credential_match", "token_upsert">>, saved.calls, {})

HandleStartSession(startSession, tenantPartner, st) ==
  IF Falsy(startSession.evse_uid)
  THEN Returned(CommandResponse("REJECTED", "EVSE UID required by this CPO"),
                <<"required_field">>, <<>>,
                {"EVSE UID is required for StartSession command"})
  ELSE
  IF CredentialsMismatch(tenantPartner, startSession.token.country_code,
                         startSession.token.party_id)
  THEN Returned(CommandResponse("REJECTED", "Token information does not match credentials"),
                <<"required_field", "credential_match">>, <<>>,
                {"Token information does not match credentials"})
  ELSE
  LET saved == ValidateTokenAndNormalizeToken(tenantPartner, st.upsert)
      stages3 == <<"required_field", "credential_match", "token_upsert">>
  IN
  IF saved.threw
  THEN Returned(CommandResponse("REJECTED", "Unable to save token"),
                stages3, saved.calls,
                {"Failed to save token before StartSession"})
  ELSE
  LET calls4 == Append(saved.calls, Call("getChargingStationById"))
      stages4 == Append(stages3, "resource_resolution")
  IN
  IF st.station.throws
  THEN Thrown(stages4, calls4, {})
  ELSE
  IF StationUnknown(st.station.rows, startSession.location_id)
  THEN Returned(CommandResponse("REJECTED", "Unknown charging station"),
                stages4, calls4, {"Charging station not found for evse_uid"})
  ELSE
  LET chargingStation == st.station.rows[1]
      stages5 == Append(stages4, "liveness_check")
  IN
  IF StationOffline(chargingStation)
  THEN Returned(CommandResponse("REJECTED", "Charging station is offline"),
                stages5, calls4, {"Charging station is offline"})
  ELSE
  IF Falsy(startSession.connector_id)
  THEN Dispatch("executeStartSession", startSession.connector_id,
                stages5, calls4, {})
  ELSE
  LET matchingConnector ==
        FindConnector(chargingStation.connectors, startSession.connector_id)
      stages6 == Append(stages5, "connector_translation")
  IN
  IF Len(matchingConnector) = 0
  THEN Returned(CommandResponse("REJECTED", "Unknown connector"),
                stages6, calls4,
                {"Connector not found for StartSession command"})
  ELSE Dispatch("executeStartSession",
                AlignConnectorId(matchingConnector[1], startSession.connector_id),
                stages6, calls4, {})

\* transaction.authorization!.tenantPartner!.countryCode! dereferences both
\* references: an absent one raises a TypeError.
PartnerReferenceMissing(transaction) ==
  \/ Len(transaction.authorization) = 0
  \/ Len(transaction.authorization[1].tenantPartner) = 0

\* Variant: the activity test is inverted.
SessionStoppedInverted(transaction) == transaction.isActive

\* !transaction.isActive
SessionStopped(transaction) == ~transaction.isActive

HandleStopSession(stopSession, tenantPartner, st) ==
  LET calls1 == <<Call("getTransactionById")>>
      stages1 == <<"resource_resolution">>
  IN
  IF st.transaction.throws
  THEN Thrown(stages1, calls1, {})
  ELSE
  IF Len(st.transaction.rows) = 0
  THEN Returned(CommandResponse("UNKNOWN_SESSION", "Session not found"),
                stages1, calls1, {"Unknown transaction"})
  ELSE
  LET transaction == st.transaction.rows[1]
      stages2 == Append(stages1, "credential_match")
  IN
  IF PartnerReferenceMissing(transaction)
  THEN Thrown(stages2, calls1, {})
  ELSE
  IF CredentialsMismatch(tenantPartner,
                         transaction.authorization[1].tenantPartner[1].countryCode,
                         transaction.authorization[1].tenantPartner[1].partyId)
  THEN Returned(CommandResponse("REJECTED", "Token information does not match credentials"),
                stages2, calls1,
                {"Token information does not match credentials"})
  ELSE
  IF SessionStopped(transaction)
  THEN Returned(CommandResponse("REJECTED", "Session is already stopped"),
                Append(stages2, "session_active"), calls1,
                {"Stop session transaction is not active"})
  ELSE
  LET stages4 == stages2 \o <<"session_active", "liveness_check">> IN
  IF StationOffline(transaction.chargingStation)
  THEN Returned(CommandResponse("REJECTED", "Charging station is offline"),
                stages4, calls1, {"Charging station is offline"})
  ELSE Dispatch("executeStopSession", NoValue, stages4, calls1, {})

HandleUnlockConnector(unlockConnector, tenantPartner, st) ==
  IF Falsy(unlockConnector.evse_uid) /\ st.extract = "throws"
  THEN Thrown(<<"resource_resolution">>, <<>>, {})
  ELSE
  LET calls1 == <<Call("getChargingStationById")>>
      stages1 == <<"resource_resolution">>
  IN
  IF st.station.throws
  THEN Thrown(stages1, calls1, {})
  ELSE
  IF StationUnknown(st.station.rows, unlockConnector.location_id)
  THEN Returned(CommandResponse("REJECTED", "Unknown charging station"),
                stages1, calls1, {"Charging station not found for evse_uid"})
  ELSE
  LET chargingStation == st.station.rows[1]
      stages2 == Append(stages1, "liveness_check")
  IN
  IF StationOffline(chargingStation)
  THEN Returned(CommandResponse("REJECTED", "Charging station is offline"),
                stages2, calls1, {"Charging station is offline"})
  ELSE
  IF Falsy(unlockConnector.connector_id)
  THEN Dispatch("executeUnlockConnector", unlockConnector.connector_id,
                stages2, calls1, {})
  ELSE
  LET matchingConnector ==
        FindConnector(chargingStation.connectors, unlockConnector.connector_id)
      stages3 == Append(stages2, "connector_translation")
  IN
  IF Len(matchingConnector) = 0
  THEN Returned(CommandResponse("REJECTED", "Unknown connector"),
                stages3, calls1,
                {"Connector not found for UnlockConnector command"})
  ELSE Dispatch("executeUnlockConnector",
                AlignConnectorId(matchingConnector[1], unlockConnector.connector_id),
                stages3, calls1, {})

PostCommand(commandType, payload, tenantPartner, st) ==
  CASE commandType = "CANCEL_RESERVATION" ->
         HandleCancelReservation(payload, tenantPartner, st)
    [] commandType = "RESERVE_NOW" ->
         HandleReserveNow(payload, tenantPartner, st)
    [] commandType = "START_SESSION" ->
         HandleStartSession(payload, tenantPartner, st)
    [] commandType = "STOP_SESSION" ->
         HandleStopSession(payload, tenantPartner, st)
    [] commandType = "UNLOCK_CONNECTOR" ->
         HandleUnlockConnector(payload, tenantPartner, st)
    [] OTHER ->
         Returned(CommandResponse("NOT_SUPPORTED", "Unknown command type"),
                  <<>>, <<>>, {})

\* ------------------------------------------------- detached executor promise

ErrorValues ==
  { [kind |-> "Error", text |-> "station timeout"],
    [kind |-> "string", text |-> "station timeout"],
    [kind |-> "object", text |-> "{code: 1}"] }

\* Variant: the handler raises the error again instead of logging it.
HandleCommandExecutionErrorRethrows(message, error) ==
  [logged |-> <<>>, rethrown |-> TRUE]

\* handleCommandExecutionError: the error (an Error, a string or a serialisable
\* object, see ErrorValues) is wrapped into an Error unless it
\* is one, then logged with the message; nothing is thrown.
HandleCommandExecutionError(message, error) ==
  [logged |-> <<[message |-> message,
                 error |-> [kind |-> "Error", text |-> error.text]]>>,
   rethrown |-> FALSE]

\* The message each handler's .catch passes on.
FailureMessage(operation) ==
  CASE operation = "executeStartSession" -> "Failed to execute StartSession command"
    [] operation = "executeStopSession" -> "Failed to execute StopSession command"
    [] operation = "executeUnlockConnector" -> "Failed to execute UnlockConnector command"

\* ------------------------------------------------------------------ inputs

EmptyPayload ==
  [evse_uid |-> NoValue, location_id |-> NoValue, connector_id |-> NoValue,
   token |-> NoToken, session_id |-> NoValue]

Payloads(commandType) ==
  CASE commandType = "START_SESSION" ->
         [evse_uid : EvseUids, location_id : LocationIdStrings,
          connector_id : ConnectorIdStrings, token : Tokens, session_id : {NoValue}]
    [] commandType = "UNLOCK_CONNECTOR" ->
         [evse_uid : EvseUids, location_id : LocationIdStrings,
          connector_id : ConnectorIdStrings, token : {NoToken}, session_id : {NoValue}]
    [] commandType = "STOP_SESSION" ->
         [evse_uid : {NoValue}, location_id : {NoValue}, connector_id : {NoValue},
          token : {NoToken}, session_id : SessionIds]
    [] commandType = "RESERVE_NOW" ->
         [evse_uid : {"S1-1"}, location_id : {"1"},
          connector_id : {NoValue}, token : Tokens, session_id : {NoValue}]
    [] OTHER ->
         [evse_uid : EvseUids, location_id : {NoValue}, connector_id : {NoValue},
          token : {NoToken, [country_code |-> "DE", party_id |-> "AAA"]},
          session_id : {NoValue}]

\* The partners a command type is tried with: the handlers that never read
\* the tenant identifiers are tried with one value of them.
Partners(commandType) ==
  IF commandType \in {"START_SESSION", "RESERVE_NOW"}
  THEN { p \in TenantPartners : p.id # 0 \/ p.tenantId # 0 }
  ELSE { p \in TenantPartners : p.id # 0 /\ p.tenantId # 0 }

\* The store answers a command type can meet.
StoresFor(commandType) ==
  CASE commandType = "START_SESSION" ->
         [upsert : UpsertResults, extract : {"ok"}, station : StationResults,
          transaction : {NoStore.transaction}]
    [] commandType = "UNLOCK_CONNECTOR" ->
         [upsert : {"ok"}, extract : ExtractResults, station : StationResults,
          transaction : {NoStore.transaction}]
    [] commandType = "STOP_SESSION" ->
         [upsert : {"ok"}, extract : {"ok"}, station : {NoStore.station},
          transaction : TransactionResults]
    [] commandType = "RESERVE_NOW" ->
         [upsert : UpsertResults, extract : {"ok"}, station : {NoStore.station},
          transaction : {NoStore.transaction}]
    [] OTHER -> {NoStore}

\* The store answers only the calls a command makes: the answer to a call that
\* is not made is left at its default.
Observed(st, commandType, payload, calls) ==
  LET made(name) == \E i \in 1..Len(calls) : calls[i].op = name IN
  [upsert |-> IF made("upsertToken") THEN st.upsert ELSE NoStore.upsert,
   extract |-> IF commandType = "UNLOCK_CONNECTOR" /\ Falsy(payload.evse_uid)
               THEN st.extract ELSE NoStore.extract,
   station |-> IF made("getChargingStationById") THEN st.station ELSE NoStore.station,
   transaction |-> IF made("getTransactionById") THEN st.transaction
                   ELSE NoStore.transaction]

\* --------------------------------------------------------------- behaviour

NoCommand ==
  [type |-> "none", payload |-> EmptyPayload,
   tenantPartner |-> [countryCode |-> NoValue, partyId |-> NoValue,
                      id |-> 0, tenantId |-> 0]]

NoSettled == [operation |-> NoValue, rejected |-> FALSE, logged |-> <<>>]

PendingCount(ops) ==
  ops["executeStartSession"] + ops["executeStopSession"]
    + ops["executeUnlockConnector"]

Started(calls, operation) ==
  Len(SelectSeq(calls, LAMBDA c : c.op = operation))

\* The command service after construction: no command was received.
NoCommands ==
  /\ configTimeout \in Timeouts
  /\ command = NoCommand
  /\ store = NoStore
  /\ outcome = Returned(NoResponse, <<>>, <<>>, {})
  /\ executorOps = [o \in ExecutorOperations |-> 0]
  /\ settled = NoSettled
  /\ unhandled = FALSE

CommandInit ==
  NoCommands /\ NoEvents /\ NoTokenCalls /\ NoPrices /\ NoUpserts /\ NoChanges

\* An inbound command: postCommand runs its guard stages against the answers
\* of the store and returns; every executor operation it started is pending.
ReceiveCommand ==
  /\ command = NoCommand
  /\ PendingCount(executorOps) <= MaxPending
  /\ \E commandType \in CommandTypes :
       \E payload \in Payloads(commandType), tenantPartner \in Partners(commandType),
          st \in StoresFor(commandType) :
         LET result == PostCommand(commandType, payload, tenantPartner, st) IN
         /\ st = Observed(st, commandType, payload, result.calls)
         /\ command' = [type |-> commandType, payload |-> payload,
                        tenantPartner |-> tenantPartner]
         /\ store' = st
         /\ outcome' = result
         /\ executorOps' =
              [o \in ExecutorOperations |-> executorOps[o] + Started(result.calls, o)]
  /\ settled' = NoSettled
  /\ UNCHANGED <<configTimeout, unhandled, eventVars, tokenVars, mapperVars, redisVars, upsertVars>>

\* The response has been sent (or the error raised): the command is discarded.
\* Executor operations it started go on.
Complete ==
  /\ command # NoCommand
  /\ command' = NoCommand
  /\ store' = NoStore
  /\ outcome' = Returned(NoResponse, <<>>, <<>>, {})
  /\ settled' = NoSettled
  /\ UNCHANGED <<configTimeout, executorOps, unhandled,
                 eventVars, tokenVars, mapperVars, redisVars, upsertVars>>

\* A pending executor operation completes.
ExecutorResolves ==
  \E operation \in ExecutorOperations :
    /\ executorOps[operation] > 0
    /\ executorOps' = [executorOps EXCEPT ![operation] = @ - 1]
    /\ settled' = [operation |-> operation, rejected |-> FALSE, logged |-> <<>>]
    /\ UNCHANGED <<configTimeout, command, store, outcome, unhandled,
                   eventVars, tokenVars, mapperVars, redisVars, upsertVars>>

\* A pending executor operation rejects: its .catch handler runs.
ExecutorRejects ==
  \E operation \in ExecutorOperations, error \in ErrorValues :
    /\ executorOps[operation] > 0
    /\ executorOps' = [executorOps EXCEPT ![operation] = @ - 1]
    /\ LET caught == HandleCommandExecutionError(FailureMessage(operation), error) IN
       /\ settled' = [operation |-> operation, rejected |-> TRUE,
                      logged |-> caught.logged]
       /\ unhandled' = (unhandled \/ caught.rethrown)
    /\ UNCHANGED <<configTimeout, command, store, outcome,
                   eventVars, tokenVars, mapperVars, redisVars, upsertVars>>

CommandNext == ReceiveCommand \/ Complete \/ ExecutorResolves \/ ExecutorRejects

CommandSpec == CommandInit /\ [][CommandNext]_vars

\* ---------------------------------------------- what a command's inputs say

\* A command has been answered (or has thrown) and is not yet discarded.
Answered == command # NoCommand

Response == outcome.response

ExecutorInvocations == Len(ExecutorCalls(outcome.calls))

Made(name) == \E i \in 1..Len(outcome.calls) : outcome.calls[i].op = name

\* The token of the payload carries the requesting partner's identity.
TokenMatchesPartner ==
  /\ command.payload.token.country_code = command.tenantPartner.countryCode
  /\ command.payload.token.party_id = command.tenantPartner.partyId

EvseUidPresent == command.payload.evse_uid \notin {NoValue, ""}

PartnerHasTenantIdentifiers ==
  command.tenantPartner.id # 0 /\ command.tenantPartner.tenantId # 0

\* The station lookup answered with a row of the claimed location.
StationResolved ==
  /\ ~store.station.throws
  /\ Len(store.station.rows) > 0
  /\ \/ store.station.rows[1].locationId = 1 /\ command.payload.location_id = "1"
     \/ store.station.rows[1].locationId = 2 /\ command.payload.location_id = "2"

\* connector_id is absent or names a connector row of the station found.
ConnectorResolved ==
  \/ command.payload.connector_id \in {NoValue, ""}
  \/ \E i \in 1..Len(store.station.rows[1].connectors) :
       \/ store.station.rows[1].connectors[i].id = 1 /\ command.payload.connector_id = "1"
       \/ store.station.rows[1].connectors[i].id = 2 /\ command.payload.connector_id = "2"

\* The transaction lookup answered with a row recorded for the requesting partner.
TransactionResolved ==
  /\ ~store.transaction.throws
  /\ Len(store.transaction.rows) > 0

TransactionOfPartner ==
  LET t == store.transaction.rows[1] IN
  /\ Len(t.authorization) > 0
  /\ Len(t.authorization[1].tenantPartner) > 0
  /\ t.authorization[1].tenantPartner[1].countryCode = command.tenantPartner.countryCode
  /\ t.authorization[1].tenantPartner[1].partyId = command.tenantPartner.partyId

\* StartSession: every stage before the liveness check passed.
StartSessionReachesStation ==
  /\ command.type = "START_SESSION"
  /\ EvseUidPresent /\ TokenMatchesPartner
  /\ PartnerHasTenantIdentifiers /\ store.upsert = "ok"
  /\ StationResolved

UnlockConnectorReachesStation ==
  /\ command.type = "UNLOCK_CONNECTOR"
  /\ Made("getChargingStationById")
  /\ StationResolved

StopSessionReachesStation ==
  /\ command.type = "STOP_SESSION"
  /\ TransactionResolved /\ TransactionOfPartner
  /\ store.transaction.rows[1].isActive

\* Every guard stage of the command's type passed.
AllGuardsPassed ==
  \/ /\ StartSessionReachesStation
     /\ store.station.rows[1].isOnline /\ ConnectorResolved
  \/ /\ UnlockConnectorReachesStation
     /\ store.station.rows[1].isOnline /\ ConnectorResolved
  \/ /\ StopSessionReachesStation
     /\ store.transaction.rows[1].chargingStation.isOnline

\* ------------------------------------------------------------------ claims

\* C1: a StartSession whose evse_uid is present and whose token
\* (country_code, party_id) differs from the requesting partner's is answered
\* Rejected, never Accepted, and executeStartSession is not invoked.
C1_MismatchedStartSession ==
  /\ command.type = "START_SESSION"
  /\ EvseUidPresent
  /\ ~TokenMatchesPartner

C1_MismatchedCredentialsRejected ==
  C1_MismatchedStartSession =>
    /\ ~outcome.thrown
    /\ Response.result = "REJECTED"
    /\ ExecutorInvocations = 0
    /\ ~Made("executeStartSession")

\* C1 witness: the country_code alone differs and the command was rejected.
C1_Witness ==
  /\ C1_MismatchedStartSession
  /\ command.payload.token.country_code # command.tenantPartner.countryCode
  /\ command.payload.token.party_id = command.tenantPartner.partyId
  /\ Response.result = "REJECTED"

C3_DetachedExecution ==
  [][ /\ (command = NoCommand /\ AllGuardsPassed') =>
           /\ ~outcome'.thrown
           /\ Response'.result = "ACCEPTED"
           /\ PendingCount(executorOps') = PendingCount(executorOps) + 1
      /\ (PendingCount(executorOps') < PendingCount(executorOps)) =>
           /\ outcome' = outcome
           /\ ~unhandled'
           /\ settled'.rejected =>
                /\ Len(settled'.logged) = 1
                /\ settled'.logged[1].error.kind = "Error"
                /\ settled'.logged[1].message \in
                     {"Failed to execute StartSession command",
                      "Failed to execute StopSession command",
                      "Failed to execute UnlockConnector command"}
    ]_vars

\* C3 witness: the executor operation of an accepted StartSession rejected
\* after Accepted was returned, and the rejection was logged.
C3_Witness ==
  /\ command.type = "START_SESSION"
  /\ Response.result = "ACCEPTED"
  /\ settled.operation = "executeStartSession"
  /\ settled.rejected
  /\ Len(settled.logged) = 1

\* C4: for StartSession and ReserveNow, when the token upsert fails
\* (upsertToken throws, or the partner lacks tenant identifiers) the command
\* is answered Rejected with reason 'Unable to save token', the executor is not
\* invoked and no station lookup is made.
C4_TokenUpsertFails ==
  /\ command.type \in {"START_SESSION", "RESERVE_NOW"}
  /\ command.type = "START_SESSION" => EvseUidPresent
  /\ TokenMatchesPartner
  /\ \/ ~PartnerHasTenantIdentifiers
     \/ Made("upsertToken") /\ store.upsert = "throws"

C4_UpsertFailureRejected ==
  C4_TokenUpsertFails =>
    /\ ~outcome.thrown
    /\ Response.result = "REJECTED"
    /\ Response.reason = "Unable to save token"
    /\ ExecutorInvocations = 0
    /\ ~Made("getChargingStationById")

\* C4 witness: a StartSession of a partner without tenant identifiers.
C4_Witness ==
  /\ command.type = "START_SESSION"
  /\ C4_TokenUpsertFails
  /\ ~PartnerHasTenantIdentifiers
  /\ Response.reason = "Unable to save token"

\* C5: a StopSession whose transaction exists with isActive = false, recorded
\* for the requesting partner, is answered Rejected with reason 'Session is
\* already stopped'; executeStopSession is not invoked and the handler's only
\* external call is the transaction lookup (no broadcast).
C5_StoppedTransaction ==
  /\ command.type = "STOP_SESSION"
  /\ TransactionResolved
  /\ TransactionOfPartner
  /\ ~store.transaction.rows[1].isActive

C5_StoppedSessionRejected ==
  C5_StoppedTransaction =>
    /\ ~outcome.thrown
    /\ Response.result = "REJECTED"
    /\ Response.reason = "Session is already stopped"
    /\ ExecutorInvocations = 0
    /\ outcome.calls = <<[op |-> "getTransactionById", connector_id |-> NoValue]>>

\* C5 witness: such a StopSession, on a station that is online.
C5_Witness ==
  /\ C5_StoppedTransaction
  /\ store.transaction.rows[1].chargingStation.isOnline
  /\ Response.reason = "Session is already stopped"

\* C6: a StopSession whose lookup finds no transaction is answered
\* UnknownSession; a StartSession or UnlockConnector whose station lookup
\* finds no station, or a station of another location, is answered Rejected
\* with reason 'Unknown charging station'; the executor is not invoked.
C6_NoTransaction ==
  /\ command.type = "STOP_SESSION"
  /\ ~store.transaction.throws
  /\ Len(store.transaction.rows) = 0

C6_NoStation ==
  /\ command.type \in {"START_SESSION", "UNLOCK_CONNECTOR"}
  /\ Made("getChargingStationById")
  /\ ~store.station.throws
  /\ ~StationResolved

C6_ResolutionFailuresTyped ==
  /\ C6_NoTransaction =>
       /\ ~outcome.thrown
       /\ Response.result = "UNKNOWN_SESSION"
       /\ ExecutorInvocations = 0
  /\ C6_NoStation =>
       /\ ~outcome.thrown
       /\ Response.result = "REJECTED"
       /\ Response.reason = "Unknown charging station"
       /\ ExecutorInvocations = 0

\* C6 witness: a StartSession whose station is online at another location.
C6_Witness ==
  /\ command.type = "START_SESSION"
  /\ C6_NoStation
  /\ Len(store.station.rows) = 1
  /\ store.station.rows[1].isOnline
  /\ Response.reason = "Unknown charging station"

\* C7: for StartSession, StopSession and UnlockConnector, a command that
\* reaches the liveness check with a station whose isOnline is false is
\* answered Rejected with reason 'Charging station is offline'; and whatever
\* the other fields are, a command whose station was found offline is never
\* Accepted and never reaches the executor.
C7_ReachesOfflineStation ==
  \/ /\ StartSessionReachesStation \/ UnlockConnectorReachesStation
     /\ ~store.station.rows[1].isOnline
  \/ /\ StopSessionReachesStation
     /\ ~store.transaction.rows[1].chargingStation.isOnline

C7_FoundStationOffline ==
  \/ /\ command.type \in {"START_SESSION", "UNLOCK_CONNECTOR"}
     /\ Made("getChargingStationById")
     /\ ~store.station.throws
     /\ Len(store.station.rows) > 0
     /\ ~store.station.rows[1].isOnline
  \/ /\ command.type = "STOP_SESSION"
     /\ TransactionResolved
     /\ ~store.transaction.rows[1].chargingStation.isOnline

C7_OfflineStationRejected ==
  /\ C7_ReachesOfflineStation =>
       /\ ~outcome.thrown
       /\ Response.result = "REJECTED"
       /\ Response.reason = "Charging station is offline"
  /\ C7_FoundStationOffline =>
       /\ Response.result # "ACCEPTED"
       /\ ExecutorInvocations = 0

\* C7 witness: an UnlockConnector naming a connector of an offline station.
C7_Witness ==
  /\ command.type = "UNLOCK_CONNECTOR"
  /\ C7_ReachesOfflineStation
  /\ command.payload.connector_id = "1"
  /\ Len(store.station.rows[1].connectors) > 0
  /\ Response.reason = "Charging station is offline"

\* C8: a StartSession or UnlockConnector whose evse_uid is absent is answered
\* Rejected with the reason that names the parameter, makes no station lookup
\* and does not invoke the executor.
C8_AbsentEvseUidRejected ==
  (command.type \in {"START_SESSION", "UNLOCK_CONNECTOR"} /\ ~EvseUidPresent) =>
    /\ ~outcome.thrown
    /\ Response.result = "REJECTED"
    /\ Response.reason = "EVSE UID required by this CPO"
    /\ ~Made("getChargingStationById")
    /\ ExecutorInvocations = 0

\* C9: CancelReservation is answered NotSupported for every payload and every
\* partner: no guard stage is evaluated (no credential check), no external
\* call is made (no token upsert, no lookup, no executor) and nothing is logged.
C9_CancelReservationStub ==
  command.type = "CANCEL_RESERVATION" =>
    /\ ~outcome.thrown
    /\ Response.result = "NOT_SUPPORTED"
    /\ outcome.stages = <<>>
    /\ outcome.calls = <<>>
    /\ outcome.logs = {}

\* C9 witness: a CancelReservation whose token is not the partner's.
C9_Witness ==
  /\ command.type = "CANCEL_RESERVATION"
  /\ command.payload.token.country_code = "DE"
  /\ command.tenantPartner.countryCode = "NL"
  /\ Response.result = "NOT_SUPPORTED"

\* C10: postCommand never throws: every command is answered with one
\* structured response whose result is Accepted, Rejected, NotSupported or
\* UnknownSession and whose timeout is the configured command timeout.
C10_AlwaysStructuredResponse ==
  Answered =>
    /\ ~outcome.thrown
    /\ Response.result \in CommandResponseTypes
    /\ Response.timeout = configTimeout

\* The place of a guard stage in the stated order of the pipeline.
StagePlace(stage) ==
  CASE stage = "credential_match" -> 1
    [] stage = "required_field" -> 2
    [] stage = "token_upsert" -> 3
    [] stage = "resource_resolution" -> 4
    [] stage = "liveness_check" -> 5
    [] stage = "connector_translation" -> 6
    [] stage = "dispatch" -> 7

\* C27: the guard stages are evaluated in the stated order (credential
\* match, required field, token upsert, resource resolution, liveness check,
\* connector translation, dispatch), none twice and none after a stage that
\* failed; a StartSession with both mismatched credentials and a missing
\* evse_uid is rejected with the credential-mismatch reason.
C27_StagesInStatedOrder ==
  Answered =>
    /\ \A i, j \in 1..Len(outcome.stages) :
         i < j => StagePlace(outcome.stages[i]) < StagePlace(outcome.stages[j])
    /\ (command.type = "START_SESSION" /\ ~TokenMatchesPartner /\ ~EvseUidPresent) =>
         /\ Response.result = "REJECTED"
         /\ Response.reason = "Token information does not match credentials"

\* StartSession or UnlockConnector: the station was found and is online, so
\* the handler stands at the connector stage.
AtConnectorStage ==
  /\ StartSessionReachesStation \/ UnlockConnectorReachesStation
  /\ store.station.rows[1].isOnline

ConnectorIdGiven == command.payload.connector_id \notin {NoValue, ""}

\* Connector row i of the station found carries the external identifier asked for.
NamedConnector(i) ==
  LET row == store.station.rows[1].connectors[i] IN
  \/ row.id = 1 /\ command.payload.connector_id = "1"
  \/ row.id = 2 /\ command.payload.connector_id = "2"

NamedConnectors == { i \in 1..Len(store.station.rows[1].connectors) : NamedConnector(i) }

\* The connector_id of the one payload handed to the executor.
DispatchedConnectorId == ExecutorCalls(outcome.calls)[1].connector_id

\* C28: for a StartSession or UnlockConnector that reached an online station:
\* a connector_id that no connector row of the station carries is answered
\* Rejected 'Unknown connector' with no executor call; a matching row with an
\* execution-layer connectorId puts that connectorId into the payload handed
\* to the executor; an absent connector_id is dispatched as it came.
C28_ConnectorTranslation ==
  AtConnectorStage =>
    /\ (ConnectorIdGiven /\ NamedConnectors = {}) =>
         /\ Response.result = "REJECTED"
         /\ Response.reason = "Unknown connector"
         /\ ExecutorInvocations = 0
    /\ \A i \in NamedConnectors :
         LET row == store.station.rows[1].connectors[i] IN
         row.connectorId # 0 =>
           /\ Response.result = "ACCEPTED"
           /\ ExecutorInvocations = 1
           /\ row.connectorId = 1 => DispatchedConnectorId = "1"
           /\ row.connectorId = 2 => DispatchedConnectorId = "2"
    /\ ~ConnectorIdGiven =>
         /\ Response.result = "ACCEPTED"
         /\ ExecutorInvocations = 1
         /\ DispatchedConnectorId = command.payload.connector_id

\* C28 witness: an UnlockConnector for external connector "1" whose row has
\* connectorId 2 was dispatched with connector_id "2".
C28_Witness ==
  /\ AtConnectorStage
  /\ command.type = "UNLOCK_CONNECTOR"
  /\ command.payload.connector_id = "1"
  /\ NamedConnectors # {}
  /\ DispatchedConnectorId = "2"

\* The token upsert of the command was reached and resolved.
TokenPersisted ==
  /\ Made("upsertToken")
  /\ store.upsert = "ok"

\* C35: a ReserveNow is never answered Accepted and never reaches the
\* executor; it is answered Rejected exactly when the token does not match
\* the partner or the token could not be saved, and NotSupported otherwise,
\* and then the token upsert has been made and has succeeded.
C35_ReserveNowNeverAccepted ==
  command.type = "RESERVE_NOW" =>
    /\ ~outcome.thrown
    /\ Response.result \in {"REJECTED", "NOT_SUPPORTED"}
    /\ ExecutorInvocations = 0
    /\ Response.result = "REJECTED" <=>
         \/ ~TokenMatchesPartner
         \/ ~PartnerHasTenantIdentifiers
         \/ store.upsert = "throws"
    /\ ~TokenMatchesPartner => ~Made("upsertToken")
    /\ Response.result = "NOT_SUPPORTED" => TokenPersisted

\* C35 witness: a ReserveNow of the partner's own token was saved and
\* answered NotSupported.
C35_Witness ==
  /\ command.type = "RESERVE_NOW"
  /\ TokenMatchesPartner
  /\ TokenPersisted
  /\ Response.result = "NOT_SUPPORTED"
  /\ outcome.calls = <<Call("upsertToken")>>

\* The requests of the command handlers that write to the data store, and
\* those that read from it.
StoreWrites == {"upsertToken"}

StoreReads == {"getTransactionById", "getChargingStationById"}

WritesMade ==
  Len(SelectSeq(outcome.calls, LAMBDA c : c.op \in StoreWrites))

\* A StartSession or ReserveNow that fails the credential match or, for
\* StartSession, lacks its evse_uid.
RejectedBeforeTokenUpsert ==
  \/ command.type \in {"START_SESSION", "RESERVE_NOW"} /\ ~TokenMatchesPartner
  \/ command.type = "START_SESSION" /\ ~EvseUidPresent

\* A StartSession that saved its token and was rejected afterwards.
RejectedAfterTokenUpsert ==
  /\ command.type = "START_SESSION"
  /\ EvseUidPresent /\ TokenMatchesPartner
  /\ TokenPersisted
  /\ Response.result = "REJECTED"

\* C36: a StartSession or ReserveNow rejected at the credential match or at
\* the required field makes no data-store write; a StartSession rejected
\* after its token upsert (unknown station, location mismatch, offline
\* station, unknown connector) has made that one write and no request after
\* it but the station read; StopSession, UnlockConnector and
\* CancelReservation make no data-store write at all.
C36_WritesOfRejectedCommands ==
  Answered =>
    /\ RejectedBeforeTokenUpsert =>
         /\ Response.result = "REJECTED"
         /\ WritesMade = 0
         /\ outcome.calls = <<>>
    /\ RejectedAfterTokenUpsert =>
         /\ Response.reason \in {"Unknown charging station",
                                 "Charging station is offline", "Unknown connector"}
         /\ WritesMade = 1
         /\ outcome.calls = <<Call("upsertToken"), Call("getChargingStationById")>>
    /\ command.type \in {"STOP_SESSION", "UNLOCK_CONNECTOR", "CANCEL_RESERVATION"} =>
         /\ WritesMade = 0
         /\ \A i \in 1..Len(outcome.calls) :
              outcome.calls[i].op \in StoreReads \cup ExecutorOperations

\* C36 witness: a StartSession that saved its token and was then rejected for
\* an unknown connector.
C36_Witness ==
  /\ RejectedAfterTokenUpsert
  /\ Response.reason = "Unknown connector"
  /\ WritesMade = 1

\* ============================================================ event handlers

\* Times are milliseconds since the epoch (Date.getTime()).
StartTimes == {5000}
MeterValueTimes == {3999, 4000, 4500, 5000, 6000, 6001}

\* The 1 second tolerance of isTransactionBeginMeterValue.
ToleranceMs == 1000

\* Answers of the collaborators one handler may consult: the store's
\* station and transaction lookups, the CDR mapper, the partner push.
NoAnswers ==
  [station |-> Rows(<<>>), transaction |-> Rows(<<>>), cdrs |-> "none",
   push |-> "ok"]

PushResults == {"ok", "failed"}

\* What a handler did: the awaited calls in order, the charging station in
\* the payload it broadcast (none unless stated), the log levels in order,
\* and whether its promise rejected (the error reaches the dispatcher).
Handling(calls, logs, raised) ==
  [calls |-> calls, carried |-> <<>>, logs |-> logs, raised |-> raised]

\* The answers that were consumed by the calls made; the others stay at
\* their defaults.
Consumed(answers, calls) ==
  LET made(names) == \E i \in 1..Len(calls) : calls[i] \in names IN
  [station |-> IF made({"getChargingStationById"}) THEN answers.station
               ELSE NoAnswers.station,
   transaction |-> IF made({"getTransactionById"}) THEN answers.transaction
                   ELSE NoAnswers.transaction,
   cdrs |-> IF made({"mapTransactionsToCdrs"}) THEN answers.cdrs ELSE NoAnswers.cdrs,
   push |-> IF made({"broadcastPatchSessionChargingPeriod", "broadcastPatchSession",
                     "broadcastPatchEvseStatus", "broadcastPatchConnector",
                     "broadcastPutLocation", "broadcastPatchLocation",
                     "broadcastPutEvse", "broadcastPatchEvse",
                     "broadcastPutConnector", "broadcastToClients"})
            THEN answers.push ELSE NoAnswers.push]

Handle(handler, payload, answers, handling) ==
  [event |-> <<>>, handler |-> handler, payload |-> payload,
   answers |-> Consumed(answers, handling.calls), calls |-> handling.calls,
   carried |-> handling.carried, logs |-> handling.logs, raised |-> handling.raised]

\* A push of the session and locations broadcasters: a failed or rejected
\* push is logged by the broadcaster and not passed on to the handler.
Broadcast(operation, push, calls, logs) ==
  Handling(Append(calls, operation),
           IF push = "failed" THEN Append(logs, "error") ELSE logs, FALSE)

\* Variant: the payload is broadcast as the event delivered it.
UnresolvedChargingStation(chargingStationResponse) == <<>>

\* dto.chargingStation = chargingStationResponse.ChargingStations[0]
ResolvedChargingStation(chargingStationResponse) ==
  <<chargingStationResponse.rows[1]>>

\* A push whose payload has the station of the response assigned to its
\* chargingStation field.
BroadcastWithStation(operation, chargingStationResponse, push, calls, logs) ==
  [Broadcast(operation, push, calls, logs) EXCEPT
     !.carried = ResolvedChargingStation(chargingStationResponse)]

\* @AsDtoEventHandler(eventType, objectType, ...) of the Sessions module.
SessionsRegistrations ==
  { [eventType |-> "INSERT", objectType |-> "Transaction",
     handler |-> "handleTransactionInsert"],
    [eventType |-> "UPDATE", objectType |-> "Transaction",
     handler |-> "handleTransactionUpdate"],
    [eventType |-> "INSERT", objectType |-> "MeterValue",
     handler |-> "handleMeterValueInsert"] }

\* Variant: every handler of the Locations module is registered as an UPDATE
\* handler of its object type.
LocationsRegistrationsAllUpdate ==
  { [eventType |-> "UPDATE", objectType |-> r[1], handler |-> r[2]] :
      r \in { <<"Location", "handleLocationInsert">>,
              <<"Location", "handleLocationUpdate">>,
              <<"ChargingStation", "handleChargingStationUpdate">>,
              <<"Evse", "handleEvseInsert">>, <<"Evse", "handleEvseUpdate">>,
              <<"Connector", "handleConnectorInsert">>,
              <<"Connector", "handleConnectorUpdate">> } }

\* @AsDtoEventHandler(eventType, objectType, ...) of the Locations module.
LocationsRegistrations ==
  { [eventType |-> "INSERT", objectType |-> "Location",
     handler |-> "handleLocationInsert"],
    [eventType |-> "UPDATE", objectType |-> "Location",
     handler |-> "handleLocationUpdate"],
    [eventType |-> "UPDATE", objectType |-> "ChargingStation",
     handler |-> "handleChargingStationUpdate"],
    [eventType |-> "INSERT", objectType |-> "Evse", handler |-> "handleEvseInsert"],
    [eventType |-> "UPDATE", objectType |-> "Evse", handler |-> "handleEvseUpdate"],
    [eventType |-> "INSERT", objectType |-> "Connector",
     handler |-> "handleConnectorInsert"],
    [eventType |-> "UPDATE", objectType |-> "Connector",
     handler |-> "handleConnectorUpdate"] }

Registrations == SessionsRegistrations \cup LocationsRegistrations

\* The dispatcher's exact-match lookup: the handlers registered for the
\* event's (eventType, objectType).
Lookup(event) ==
  { r.handler : r \in { q \in Registrations : /\ q.eventType = event[1]
                                             /\ q.objectType = event[2] } }

\* The handling of an event by the handler the dispatcher invoked for it.
Dispatched(event, handling) == [handling EXCEPT !.event = event]

\* One event at a time is followed through the handlers below; only
\* invocations of handleTransactionInsert, which share the cache, overlap.
DispatcherIdle ==
  /\ handled.handler = "none"
  /\ \A h \in InsertHandlers : inserts[h].pc = "idle"

Abs(n) == IF n < 0 THEN -n ELSE n

\* Variant: a delta of exactly the tolerance is not within it.
WithinToleranceExclusive(meterValueTime, transactionStartTime) ==
  Abs(meterValueTime - transactionStartTime) < ToleranceMs

\* timeDiffMs <= 1000
WithinTolerance(meterValueTime, transactionStartTime) ==
  Abs(meterValueTime - transactionStartTime) <= ToleranceMs

\* Variant: a meter value whose transaction cannot be read is held back.
IsTransactionBeginUnlessRead(meterValueDto, transactionResponse) ==
  IF transactionResponse.throws THEN [begin |-> TRUE, logs |-> <<"error">>]
  ELSE IF Len(transactionResponse.rows) = 0
    THEN [begin |-> TRUE, logs |-> <<"warn">>]
  ELSE [begin |-> WithinTolerance(meterValueDto.timestamp,
                                  transactionResponse.rows[1].startTime),
        logs |-> <<>>]

\* isTransactionBeginMeterValue: false when the transaction is not found or
\* the lookup throws.
IsTransactionBeginMeterValue(meterValueDto, transactionResponse) ==
  IF transactionResponse.throws THEN [begin |-> FALSE, logs |-> <<"error">>]
  ELSE IF Len(transactionResponse.rows) = 0
    THEN [begin |-> FALSE, logs |-> <<"warn">>]
  ELSE [begin |-> WithinTolerance(meterValueDto.timestamp,
                                  transactionResponse.rows[1].startTime),
        logs |-> <<>>]

\* Variant: a meter value is never held back for its tariff reference.
TariffNeverRequired(meterValueDto) == FALSE

\* !meterValueDto.tariffId
LacksTariff(meterValueDto) == meterValueDto.tariffId = 0

HandleMeterValueInsert(meterValueDto, answers) ==
  IF ~meterValueDto.tenant THEN Handling(<<>>, <<"error">>, FALSE)
  ELSE IF Falsy(meterValueDto.transactionId) THEN Handling(<<>>, <<>>, FALSE)
  ELSE IF LacksTariff(meterValueDto) THEN Handling(<<>>, <<"warn">>, FALSE)
  ELSE
    LET isTransactionBegin ==
          IsTransactionBeginMeterValue(meterValueDto, answers.transaction) IN
    IF isTransactionBegin.begin
      THEN Handling(<<"getTransactionById">>, isTransactionBegin.logs, FALSE)
      ELSE Broadcast("broadcastPatchSessionChargingPeriod", answers.push,
                     <<"getTransactionById">>, isTransactionBegin.logs)

MeterValueDtos ==
  [tenant : BOOLEAN, transactionId : {NoValue, "5"}, tariffId : {0, 3},
   timestamp : MeterValueTimes]

StartTimeResults ==
  {Failed, Rows(<<>>)} \cup { Rows(<<[startTime |-> t]>>) : t \in StartTimes }

\* A MeterValue INSERT notification.
MeterValueInsert ==
  /\ DispatcherIdle
  /\ \E event \in ChangeEvents :
       /\ "handleMeterValueInsert" \in Lookup(event)
       /\ \E meterValueDto \in MeterValueDtos, transaction \in StartTimeResults,
             push \in PushResults :
            LET answers == [NoAnswers EXCEPT !.transaction = transaction,
                                             !.push = push] IN
            handled' = Dispatched(event,
                         Handle("handleMeterValueInsert", meterValueDto, answers,
                                HandleMeterValueInsert(meterValueDto, answers)))
  /\ UNCHANGED <<commandVars, tokenVars, mapperVars, redisVars, upsertVars, inserts, cache>>

\* ------------------------------------------------- Connector UPDATE handler

\* Keys of a connector update besides id, evseId, stationId and tenant.
ChangeableKeys == {"status", "format", "maximumPowerWatts", "updatedAt", "timestamp"}

ConnectorDtos ==
  [tenant : BOOLEAN, evseId : {1}, stationId : {"S1"}, changed : SUBSET ChangeableKeys]

\* Object.keys(connectorDto) once chargingStation has been assigned.
Keys(connectorDto) ==
  {"id", "evseId", "stationId", "chargingStation"}
    \cup (IF connectorDto.tenant THEN {"tenant"} ELSE {})
    \cup connectorDto.changed

\* The station's connectors: absent, or the list of connector rows.
SiblingLists ==
  { <<>>,
    <<[evseId |-> 1, stationId |-> "S1"]>>,
    <<[evseId |-> 2, stationId |-> "S1"]>>,
    <<[evseId |-> 1, stationId |-> "S1"], [evseId |-> 2, stationId |-> "S1"]>> }

StationsWithConnectors ==
  {[connectors |-> <<>>]} \cup { [connectors |-> <<l>>] : l \in SiblingLists }

ConnectorStationResults ==
  {Failed, Rows(<<>>)} \cup { Rows(<<s>>) : s \in StationsWithConnectors }

MetadataKeys ==
  {"id", "evseId", "stationId", "tenant", "tenantId", "chargingStation",
   "updatedAt", "createdAt", "timestamp"}

\* Variant: any update that carries a status counts as a status update.
IsStatusOnlyUpdateAnyStatus(connectorDto) == "status" \in Keys(connectorDto)

\* updateKeys.length === 1 && updateKeys.includes('status')
IsStatusOnlyUpdate(connectorDto) ==
  LET updateKeys == Keys(connectorDto) \ MetadataKeys IN
  Cardinality(updateKeys) = 1 /\ "status" \in updateKeys

\* connectorDto.chargingStation.connectors?.filter(...): the connectors of
\* the same EVSE and station; absent connectors yield no connector data.
ConnectorData(chargingStation, connectorDto) ==
  IF chargingStation.connectors = <<>> THEN <<>>
  ELSE SelectSeq(chargingStation.connectors[1],
                 LAMBDA connector : /\ connector.evseId = connectorDto.evseId
                                    /\ connector.stationId = connectorDto.stationId)

HandleConnectorUpdate(connectorDto, answers) ==
  IF ~connectorDto.tenant THEN Handling(<<>>, <<"error">>, FALSE)
  ELSE IF answers.station.throws
    THEN Handling(<<"getChargingStationById">>, <<>>, TRUE)
  ELSE IF Len(answers.station.rows) = 0
    THEN Handling(<<"getChargingStationById">>, <<"error">>, FALSE)
  ELSE
    IF IsStatusOnlyUpdate(connectorDto)
      THEN IF Len(ConnectorData(answers.station.rows[1], connectorDto)) = 0
             THEN Handling(<<"getChargingStationById">>, <<"error">>, FALSE)
             ELSE BroadcastWithStation("broadcastPatchEvseStatus", answers.station,
                                       answers.push,
                                       <<"getChargingStationById">>, <<>>)
      ELSE BroadcastWithStation("broadcastPatchConnector", answers.station,
                                answers.push, <<"getChargingStationById">>, <<>>)

\* A Connector UPDATE notification.
ConnectorUpdate ==
  /\ DispatcherIdle
  /\ \E event \in ChangeEvents :
       /\ "handleConnectorUpdate" \in Lookup(event)
       /\ \E connectorDto \in ConnectorDtos, station \in ConnectorStationResults,
             push \in PushResults :
            LET answers == [NoAnswers EXCEPT !.station = station, !.push = push] IN
            handled' = Dispatched(event,
                         Handle("handleConnectorUpdate", connectorDto, answers,
                                HandleConnectorUpdate(connectorDto, answers)))
  /\ UNCHANGED <<commandVars, tokenVars, mapperVars, redisVars, upsertVars, inserts, cache>>

\* --------------------------------------------- Transaction INSERT handler

\* The authorization reference that a StartSession staged for the token.
AuthorizationReferences == {"ref-1"}

\* A transaction as the handler uses it: whether authorization.idToken is
\* set, and its customData: absent (<<>>), or an object holding an
\* authorization_reference or none (NoValue).
TransactionDtos == [idToken : BOOLEAN, customData : {<<>>, <<NoValue>>}]

FullTransactionResults ==
  {Failed, Rows(<<>>)} \cup { Rows(<<t>>) : t \in TransactionDtos }

\* The authorization_reference in the session a PUT carries.
ReferenceOf(transactionDto) ==
  IF transactionDto.customData = <<>> THEN NoValue ELSE transactionDto.customData[1]

\* Variant: after a caught failure the handler returns without the PUT.
IssuePutUnlessCaught(insert) ==
  IF \E i \in 1..Len(insert.logs) : insert.logs[i] = "error"
    THEN [insert EXCEPT !.pc = "done"]
    ELSE [insert EXCEPT !.pc = "put", !.steps = Append(@, "broadcastPutSession"),
                        !.put = <<ReferenceOf(insert.dto)>>]

\* await sessionBroadcaster.broadcastPutSession(tenant, fullTransactionDto)
IssuePut(insert) ==
  [insert EXCEPT !.pc = "put", !.steps = Append(@, "broadcastPutSession"),
                 !.put = <<ReferenceOf(insert.dto)>>]

\* A Transaction INSERT notification: without a tenant the handler logs and
\* returns, otherwise it requests the full transaction.
TransactionInsert(h) ==
  /\ handled.handler = "none"
  /\ inserts[h].pc = "idle"
  /\ \E event \in ChangeEvents, tenant \in BOOLEAN, transactionDto \in TransactionDtos :
       /\ "handleTransactionInsert" \in Lookup(event)
       /\ inserts' = [inserts EXCEPT ![h] =
            IF ~tenant
              THEN [IdleInsert EXCEPT !.pc = "done", !.event = event,
                                      !.logs = <<"error">>]
              ELSE [IdleInsert EXCEPT !.pc = "fetch", !.dto = transactionDto,
                                      !.payload = <<transactionDto>>,
                                      !.event = event, !.tenant = TRUE,
                                      !.steps = <<"getTransactionById">>]]
  /\ UNCHANGED <<commandVars, tokenVars, mapperVars, redisVars, upsertVars, handled, cache>>

\* The transaction request returns. A failed request rejects the handler;
\* a missing row leaves the event payload as the full transaction. With a
\* token id the cache is read, without one the PUT is pushed.
FetchReturns(h) ==
  /\ inserts[h].pc = "fetch"
  /\ \E fullTransactionResponse \in FullTransactionResults :
       LET fullTransactionDto ==
             IF Len(fullTransactionResponse.rows) = 1
               THEN fullTransactionResponse.rows[1] ELSE inserts[h].dto
           fetched == [inserts[h] EXCEPT
                         !.dto = fullTransactionDto,
                         !.fetched = fullTransactionResponse.rows,
                         !.payload = IF Len(fullTransactionResponse.rows) = 1
                                       THEN <<>> ELSE @] IN
       inserts' = [inserts EXCEPT ![h] =
         IF fullTransactionResponse.throws
           THEN [@ EXCEPT !.pc = "done", !.raised = TRUE]
         ELSE IF fullTransactionDto.idToken
           THEN [fetched EXCEPT !.pc = "cache_get", !.steps = Append(@, "cache.get")]
           ELSE IssuePut(fetched)]
  /\ UNCHANGED <<commandVars, tokenVars, mapperVars, redisVars, upsertVars, handled, cache>>

\* RedisCache.get only reads: the entry stays until a del is executed.
CacheAfterGet(value) == value

\* cache.get returns. A failure is caught and logged. Otherwise cache.remove
\* is called and not awaited; a reference found is written into customData
\* (into the transaction's own object when it has one) and the mutation is
\* requested; without a reference a warning is logged.
CacheGetReturns(h) ==
  /\ inserts[h].pc = "cache_get"
  /\ \E getFails \in BOOLEAN :
       IF getFails
         THEN /\ inserts' = [inserts EXCEPT ![h] =
                   IssuePut([@ EXCEPT !.read = "failed",
                                      !.logs = Append(@, "error")])]
              /\ UNCHANGED cache
         ELSE
           LET authorizationReference == cache
               removing == [inserts[h] EXCEPT
                              !.read = "ok",
                              !.reference = authorizationReference,
                              !.removal = "pending",
                              !.steps = Append(@, "cache.remove")] IN
           /\ cache' = CacheAfterGet(cache)
           /\ inserts' = [inserts EXCEPT ![h] =
                IF authorizationReference # NoValue
                  THEN [removing EXCEPT
                          !.dto.customData =
                             IF @ = <<>> THEN @ ELSE <<authorizationReference>>,
                          !.persisted = "pending",
                          !.steps = Append(@, "updateTransactionCustomData"),
                          !.pc = "persist"]
                  ELSE IssuePut([removing EXCEPT !.logs = Append(@, "warn")])]
  /\ UNCHANGED <<commandVars, tokenVars, mapperVars, redisVars, upsertVars, handled>>

\* The del of an un-awaited cache.remove is executed, or fails with nobody
\* handling the rejection.
CacheRemoveSettles(h) ==
  /\ inserts[h].removal = "pending"
  /\ \E removeFails \in BOOLEAN :
       IF removeFails
         THEN /\ inserts' = [inserts EXCEPT ![h].removal = "failed"]
              /\ UNCHANGED cache
         ELSE /\ inserts' = [inserts EXCEPT ![h].removal = "done"]
              /\ cache' = NoValue
  /\ UNCHANGED <<commandVars, tokenVars, mapperVars, redisVars, upsertVars, handled>>

\* The customData mutation returns: on success the DTO gets the customData
\* with the reference; a failure is caught and logged. The PUT follows.
PersistReturns(h) ==
  /\ inserts[h].pc = "persist"
  /\ \E mutationFails \in BOOLEAN :
       inserts' = [inserts EXCEPT ![h] =
         IF mutationFails
           THEN IssuePut([@ EXCEPT !.persisted = "failed",
                                   !.logs = Append(@, "error")])
           ELSE IssuePut([@ EXCEPT !.persisted = "ok",
                                   !.dto.customData = <<inserts[h].reference>>])]
  /\ UNCHANGED <<commandVars, tokenVars, mapperVars, redisVars, upsertVars, handled, cache>>

\* broadcastPutSession returns; the handler's promise resolves.
PutReturns(h) ==
  /\ inserts[h].pc = "put"
  /\ \E push \in PushResults :
       inserts' = [inserts EXCEPT ![h] =
         [@ EXCEPT !.pc = "done",
                   !.logs = IF push = "failed" THEN Append(@, "error") ELSE @]]
  /\ UNCHANGED <<commandVars, tokenVars, mapperVars, redisVars, upsertVars, handled, cache>>

\* The dispatcher is done with the event, and its cache.remove has settled.
InsertSettled(h) ==
  /\ inserts[h].pc = "done"
  /\ inserts[h].removal # "pending"
  /\ inserts' = [inserts EXCEPT ![h] = IdleInsert]
  /\ UNCHANGED <<commandVars, tokenVars, mapperVars, redisVars, upsertVars, handled, cache>>

\* The command executor stages the authorization reference of a StartSession
\* under the token id (cache.set).
StageAuthorizationReference ==
  /\ DispatcherIdle
  /\ cache = NoValue
  /\ \E authorizationReference \in AuthorizationReferences :
       cache' = authorizationReference
  /\ UNCHANGED <<commandVars, tokenVars, mapperVars, redisVars, upsertVars, handled, inserts>>

HandleTransactionInsert(h) ==
  \/ TransactionInsert(h)
  \/ FetchReturns(h)
  \/ CacheGetReturns(h)
  \/ CacheRemoveSettles(h)
  \/ PersistReturns(h)
  \/ PutReturns(h)
  \/ InsertSettled(h)

\* ------------------------------------------------ Transaction UPDATE handler

\* isActive of a partial transaction: true, false or not part of the update.
TransactionUpdates == [tenant : BOOLEAN, isActive : {"true", "false", NoValue}]

\* cdrMapper.mapTransactionsToCdrs throws, or maps the transaction to no CDR
\* or to one.
CdrResults == {"throws", "none", "one"}

\* CdrBroadcaster.broadcastPostCdr: the mapping is awaited outside the try
\* block; without a CDR a warning is logged; a failed push is caught.
BroadcastPostCdr(answers, calls, logs) ==
  LET mapped == Append(calls, "mapTransactionsToCdrs") IN
  IF answers.cdrs = "throws" THEN Handling(mapped, logs, TRUE)
  ELSE IF answers.cdrs = "none" THEN Handling(mapped, Append(logs, "warn"), FALSE)
  ELSE Handling(Append(mapped, "broadcastToClients"),
                IF answers.push = "failed" THEN Append(logs, "error") ELSE logs,
                FALSE)

\* Variant: an update that does not say the transaction is active.
MarksInactiveWhenNotActive(transactionDto) == transactionDto.isActive # "true"

\* transactionDto.isActive === false
MarksInactive(transactionDto) == transactionDto.isActive = "false"

HandleTransactionUpdate(transactionDto, answers) ==
  IF ~transactionDto.tenant THEN Handling(<<>>, <<"error">>, FALSE)
  ELSE
    LET patched == Broadcast("broadcastPatchSession", answers.push, <<>>, <<>>)
        looked == Append(patched.calls, "getTransactionById") IN
    IF ~MarksInactive(transactionDto) THEN patched
    ELSE IF answers.transaction.throws THEN Handling(looked, patched.logs, TRUE)
    ELSE IF Len(answers.transaction.rows) = 0
      THEN Handling(looked, Append(patched.logs, "error"), FALSE)
    ELSE BroadcastPostCdr(answers, looked, patched.logs)

\* A Transaction UPDATE notification.
TransactionUpdate ==
  /\ DispatcherIdle
  /\ \E event \in ChangeEvents :
       /\ "handleTransactionUpdate" \in Lookup(event)
       /\ \E transactionDto \in TransactionUpdates, transaction \in StartTimeResults,
             cdrs \in CdrResults, push \in PushResults :
            LET answers == [transaction |-> transaction, cdrs |-> cdrs, push |-> push,
                            station |-> NoAnswers.station] IN
            handled' = Dispatched(event,
                         Handle("handleTransactionUpdate", transactionDto, answers,
                                HandleTransactionUpdate(transactionDto, answers)))
  /\ UNCHANGED <<commandVars, tokenVars, mapperVars, redisVars, upsertVars, inserts, cache>>

\* ------------------------------------- Location, EVSE and Connector handlers

\* Of these payloads only the tenant decides what the handler does.
LocationsDtos == [tenant : BOOLEAN]

\* handleLocationInsert, handleLocationUpdate: the tenant check, then the push.
HandleLocationEvent(operation, locationDto, answers) ==
  IF ~locationDto.tenant THEN Handling(<<>>, <<"error">>, FALSE)
  ELSE Broadcast(operation, answers.push, <<>>, <<>>)

\* handleEvseInsert, handleEvseUpdate, handleConnectorInsert: the tenant
\* check, the station request (awaited outside any try block), the push.
HandleStationChildEvent(operation, dto, answers) ==
  IF ~dto.tenant THEN Handling(<<>>, <<"error">>, FALSE)
  ELSE IF answers.station.throws
    THEN Handling(<<"getChargingStationById">>, <<>>, TRUE)
  ELSE IF Len(answers.station.rows) = 0
    THEN Handling(<<"getChargingStationById">>, <<"error">>, FALSE)
  ELSE BroadcastWithStation(operation, answers.station, answers.push,
                            <<"getChargingStationById">>, <<>>)

LocationEvent(handler, operation) ==
  /\ DispatcherIdle
  /\ \E event \in ChangeEvents :
       /\ handler \in Lookup(event)
       /\ \E locationDto \in LocationsDtos, push \in PushResults :
            LET answers == [NoAnswers EXCEPT !.push = push] IN
            handled' = Dispatched(event,
                         Handle(handler, locationDto, answers,
                                HandleLocationEvent(operation, locationDto, answers)))
  /\ UNCHANGED <<commandVars, tokenVars, mapperVars, redisVars, upsertVars, inserts, cache>>

StationChildEvent(handler, operation) ==
  /\ DispatcherIdle
  /\ \E event \in ChangeEvents :
       /\ handler \in Lookup(event)
       /\ \E dto \in LocationsDtos, station \in ConnectorStationResults,
             push \in PushResults :
            LET answers == [NoAnswers EXCEPT !.station = station, !.push = push] IN
            handled' = Dispatched(event,
                         Handle(handler, dto, answers,
                                HandleStationChildEvent(operation, dto, answers)))
  /\ UNCHANGED <<commandVars, tokenVars, mapperVars, redisVars, upsertVars, inserts, cache>>

LocationInsert == LocationEvent("handleLocationInsert", "broadcastPutLocation")

LocationUpdate == LocationEvent("handleLocationUpdate", "broadcastPatchLocation")

EvseInsert == StationChildEvent("handleEvseInsert", "broadcastPutEvse")

EvseUpdate == StationChildEvent("handleEvseUpdate", "broadcastPatchEvse")

ConnectorInsert == StationChildEvent("handleConnectorInsert", "broadcastPutConnector")

\* handleChargingStationUpdate only logs at debug level.
ChargingStationUpdate ==
  /\ DispatcherIdle
  /\ \E event \in ChangeEvents, dto \in LocationsDtos :
       /\ "handleChargingStationUpdate" \in Lookup(event)
       /\ handled' = Dispatched(event,
                        Handle("handleChargingStationUpdate", dto, NoAnswers,
                               Handling(<<>>, <<>>, FALSE)))
  /\ UNCHANGED <<commandVars, tokenVars, mapperVars, redisVars, upsertVars, inserts, cache>>

\* An event with no registered handler is discarded with a debug log.
EventDiscarded ==
  /\ DispatcherIdle
  /\ \E event \in ChangeEvents :
       /\ Lookup(event) = {}
       /\ handled' = [NoHandled EXCEPT !.event = event, !.logs = <<"debug">>]
  /\ UNCHANGED <<commandVars, tokenVars, mapperVars, redisVars, upsertVars, inserts, cache>>

\* The handler's promise has settled, or the event was discarded: the
\* dispatcher is done with the event.
EventSettled ==
  /\ handled # NoHandled
  /\ handled' = NoHandled
  /\ UNCHANGED <<commandVars, tokenVars, mapperVars, redisVars, upsertVars, inserts, cache>>

EventNext ==
  \/ MeterValueInsert
  \/ ConnectorUpdate
  \/ TransactionUpdate
  \/ LocationInsert
  \/ LocationUpdate
  \/ ChargingStationUpdate
  \/ EvseInsert
  \/ EvseUpdate
  \/ ConnectorInsert
  \/ EventDiscarded
  \/ EventSettled
  \/ StageAuthorizationReference
  \/ \E h \in InsertHandlers : HandleTransactionInsert(h)

EventSpec == CommandInit /\ [][EventNext]_vars

\* ------------------------------------------------------- claims on events

Calls(operation) ==
  Len(SelectSeq(handled.calls, LAMBDA c : c = operation))

\* A MeterValue INSERT with tenant, transactionId and tariffId whose
\* transaction was found.
MeterValueOfFoundTransaction ==
  /\ handled.handler = "handleMeterValueInsert"
  /\ handled.payload.tenant
  /\ ~Falsy(handled.payload.transactionId)
  /\ handled.payload.tariffId # 0
  /\ ~handled.answers.transaction.throws
  /\ Len(handled.answers.transaction.rows) = 1

MeterValueDelta ==
  Abs(handled.payload.timestamp - handled.answers.transaction.rows[1].startTime)

\* C11: a meter value of a found transaction (tenant, transactionId and
\* tariffId present) is suppressed, with no charging-period PATCH, exactly
\* when its timestamp is within 1000 ms of the transaction's start time, on
\* either side; otherwise the PATCH is broadcast exactly once.
C11_BeginMeterValueSuppressed ==
  MeterValueOfFoundTransaction =>
    /\ Calls("broadcastPatchSessionChargingPeriod") \in {0, 1}
    /\ Calls("broadcastPatchSessionChargingPeriod") = 0 <=> MeterValueDelta <= 1000
    /\ MeterValueDelta \in {0, 1000} => Calls("broadcastPatchSessionChargingPeriod") = 0
    /\ MeterValueDelta = 1001 => Calls("broadcastPatchSessionChargingPeriod") = 1

\* A meter value exactly 1000 ms before the start was suppressed.
C11_Witness ==
  /\ MeterValueOfFoundTransaction
  /\ handled.payload.timestamp = handled.answers.transaction.rows[1].startTime - 1000
  /\ Calls("broadcastPatchSessionChargingPeriod") = 0

\* A Connector UPDATE whose tenant is present and whose station was found.
ConnectorUpdateResolved ==
  /\ handled.handler = "handleConnectorUpdate"
  /\ handled.payload.tenant
  /\ ~handled.answers.station.throws
  /\ Len(handled.answers.station.rows) = 1

\* Ignoring identity and audit fields, status is the only changed field.
OnlyStatusChanged ==
  handled.payload.changed \ {"updatedAt", "timestamp"} = {"status"}

\* The found station lists a connector of the update's EVSE and station.
SiblingConnectorsFound ==
  LET station == handled.answers.station.rows[1] IN
  /\ station.connectors # <<>>
  /\ \E i \in 1..Len(station.connectors[1]) :
       /\ station.connectors[1][i].evseId = handled.payload.evseId
       /\ station.connectors[1][i].stationId = handled.payload.stationId

\* C12 as stated: every Connector UPDATE whose tenant and station resolve
\* makes exactly one broadcast, the EVSE-level status PATCH for a status-only
\* change and the connector-level PATCH otherwise.
C12_ExactlyOneBroadcast ==
  ConnectorUpdateResolved =>
    /\ Calls("broadcastPatchEvseStatus") + Calls("broadcastPatchConnector") = 1
    /\ OnlyStatusChanged => Calls("broadcastPatchEvseStatus") = 1
    /\ ~OnlyStatusChanged => Calls("broadcastPatchConnector") = 1

\* C12 amended: a resolved Connector UPDATE makes at most one broadcast; a
\* status-only change is broadcast as one EVSE-level status PATCH and no
\* connector-level PATCH when the station lists a connector of the same EVSE,
\* and is not broadcast at all when it lists none; any other change is
\* broadcast as one connector-level PATCH and no EVSE-level PATCH.
C12_StatusOnlyAtEvseLevel ==
  ConnectorUpdateResolved =>
    /\ OnlyStatusChanged /\ SiblingConnectorsFound =>
         /\ Calls("broadcastPatchEvseStatus") = 1
         /\ Calls("broadcastPatchConnector") = 0
    /\ OnlyStatusChanged /\ ~SiblingConnectorsFound =>
         /\ Calls("broadcastPatchEvseStatus") = 0
         /\ Calls("broadcastPatchConnector") = 0
    /\ ~OnlyStatusChanged =>
         /\ Calls("broadcastPatchConnector") = 1
         /\ Calls("broadcastPatchEvseStatus") = 0

\* A status change that came with an audit field went out at EVSE level.
C12_Witness ==
  /\ ConnectorUpdateResolved
  /\ handled.payload.changed = {"status", "updatedAt"}
  /\ SiblingConnectorsFound
  /\ Calls("broadcastPatchEvseStatus") = 1

\* Position of the first call of an operation by the handled event (0: none).
CallAt(operation) ==
  IF Calls(operation) = 0 THEN 0
  ELSE CHOOSE i \in 1..Len(handled.calls) :
         /\ handled.calls[i] = operation
         /\ \A j \in 1..(i - 1) : handled.calls[j] # operation

TransactionUpdateWithTenant ==
  handled.handler = "handleTransactionUpdate" /\ handled.payload.tenant

\* The update says isActive = false and the full transaction was found.
InactiveAndFound ==
  /\ handled.payload.isActive = "false"
  /\ ~handled.answers.transaction.throws
  /\ Len(handled.answers.transaction.rows) = 1

\* C15 as stated: a Transaction UPDATE with a tenant pushes exactly one
\* session PATCH, and a CDR is generated and broadcast exactly when the
\* update has isActive = false and the full transaction is found, after the
\* session PATCH.
C15_CdrIffInactiveAndFound ==
  TransactionUpdateWithTenant =>
    /\ Calls("broadcastPatchSession") = 1
    /\ Calls("broadcastToClients") = 1 <=> InactiveAndFound
    /\ Calls("broadcastToClients") = 1 =>
         CallAt("broadcastPatchSession") < CallAt("broadcastToClients")

\* C15 amended: a Transaction UPDATE with a tenant pushes exactly one session
\* PATCH, first of all its calls; CDR generation is invoked, once, exactly
\* when the update has isActive = false and the full transaction is found;
\* the CDR is broadcast, once and after the session PATCH, exactly when in
\* addition the mapper yields a CDR; an update that does not have
\* isActive = false makes no lookup, no CDR mapping and no CDR broadcast.
C15_CdrAfterPatchWhenMapped ==
  TransactionUpdateWithTenant =>
    /\ Calls("broadcastPatchSession") = 1
    /\ CallAt("broadcastPatchSession") = 1
    /\ Calls("mapTransactionsToCdrs") = (IF InactiveAndFound THEN 1 ELSE 0)
    /\ Calls("broadcastToClients") =
         (IF InactiveAndFound /\ handled.answers.cdrs = "one" THEN 1 ELSE 0)
    /\ handled.payload.isActive # "false" =>
         handled.calls = <<"broadcastPatchSession">>

\* An inactive, found transaction whose CDR was broadcast after the PATCH.
C15_Witness ==
  /\ TransactionUpdateWithTenant
  /\ InactiveAndFound
  /\ handled.calls = <<"broadcastPatchSession", "getTransactionById",
                       "mapTransactionsToCdrs", "broadcastToClients">>

\* ----------------------------------------- claims on Transaction INSERT

\* The invocations that read a non-null authorization reference.
Observers == { h \in InsertHandlers : inserts[h].reference # NoValue }

\* The invocations whose customData mutation with the reference succeeded.
Appliers == { h \in InsertHandlers : inserts[h].persisted = "ok" }

\* C13: of the overlapping Transaction INSERT handlers that consume the
\* cache entry of one token id, at most one reads a non-null authorization
\* reference, and the staged reference is applied to at most one
\* transaction.
C13_ReferenceConsumedOnce ==
  /\ Cardinality(Observers) <= 1
  /\ Cardinality(Appliers) <= 1

\* Position of a call among the calls an invocation issued (0: not issued).
StepAt(h, call) ==
  IF \E i \in 1..Len(inserts[h].steps) : inserts[h].steps[i] = call
    THEN CHOOSE i \in 1..Len(inserts[h].steps) : inserts[h].steps[i] = call
    ELSE 0

\* When both calls were issued, the first was issued before the second.
Before(h, first, second) ==
  StepAt(h, first) # 0 /\ StepAt(h, second) # 0 =>
    StepAt(h, first) < StepAt(h, second)

PutSent(h) == inserts[h].put # <<>>

\* C14: within one Transaction INSERT the calls are issued in the order
\* fetch, cache read, cache remove, persist, PUT, each after the one before
\* has completed: when the PUT is sent the cache removal and the persistence
\* call are no longer pending, and when a reference was read from the cache
\* the PUT body carries it.
C14_StepsSequenced ==
  \A h \in InsertHandlers :
    /\ Before(h, "getTransactionById", "cache.get")
    /\ Before(h, "cache.get", "cache.remove")
    /\ Before(h, "cache.remove", "updateTransactionCustomData")
    /\ Before(h, "updateTransactionCustomData", "broadcastPutSession")
    /\ PutSent(h) =>
         /\ inserts[h].removal # "pending"
         /\ inserts[h].persisted # "pending"
         /\ inserts[h].reference # NoValue =>
              /\ inserts[h].persisted # "none"
              /\ inserts[h].put[1] = inserts[h].reference

\* C16: no event handler's promise ever rejects: whatever a lookup, the CDR
\* mapping or a partner push does, no error reaches the dispatcher.
C16_NoHandlerRaises ==
  /\ ~handled.raised
  /\ \A h \in InsertHandlers : ~inserts[h].raised

\* How often an invocation issued a call.
CallsOf(h, call) ==
  Cardinality({ i \in 1..Len(inserts[h].steps) : inserts[h].steps[i] = call })

InsertLogged(h, level) ==
  \E i \in 1..Len(inserts[h].logs) : inserts[h].logs[i] = level

\* An invocation with a tenant whose fetch has returned without throwing.
PastFetch(h) ==
  /\ inserts[h].tenant
  /\ inserts[h].pc \notin {"idle", "fetch"}
  /\ ~inserts[h].raised

\* The transaction the fetch returned, or the one of the event payload when
\* it returned none.
FetchedOrPayload(h) ==
  IF inserts[h].fetched = <<>> THEN inserts[h].payload[1] ELSE inserts[h].fetched[1]

\* C38: in handleTransactionInsert cache.remove is called once whenever the
\* cache read succeeded, with or without a value found and whatever the
\* persistence call then does, and its del empties the entry; a failed cache
\* read and a failed persistence call are logged and never reject the
\* handler; and once the fetch has returned the PUT is broadcast exactly
\* once, with the fetched transaction or, when none was returned, the one of
\* the event payload, in which only customData may hold the reference read.
C38_RemovalAndPutDespiteFailures ==
  \A h \in InsertHandlers :
    /\ inserts[h].raised => inserts[h].read = "none" /\ inserts[h].persisted = "none"
    /\ PastFetch(h) =>
         /\ inserts[h].read = "ok" =>
              /\ CallsOf(h, "cache.remove") = 1
              /\ StepAt(h, "cache.remove") = StepAt(h, "cache.get") + 1
              /\ inserts[h].removal # "none"
              /\ inserts[h].removal = "done" => cache = NoValue
         /\ (inserts[h].read = "failed" \/ inserts[h].persisted = "failed") =>
              /\ InsertLogged(h, "error")
              /\ inserts[h].pc \in {"put", "done"}
         /\ CallsOf(h, "broadcastPutSession")
              = IF inserts[h].pc \in {"put", "done"} THEN 1 ELSE 0
         /\ inserts[h].pc \in {"put", "done"} =>
              /\ PutSent(h)
              /\ inserts[h].dto.idToken = FetchedOrPayload(h).idToken
              /\ inserts[h].dto.customData
                   \in {FetchedOrPayload(h).customData, <<inserts[h].reference>>}
              /\ inserts[h].put = <<ReferenceOf(inserts[h].dto)>>

\* C38 witness: no transaction was fetched, the reference was read from the
\* cache and removed, persisting it failed, and the PUT was still pushed
\* once with the transaction of the payload.
C38_Witness ==
  \E h \in InsertHandlers :
    /\ inserts[h].pc = "done"
    /\ inserts[h].fetched = <<>>
    /\ inserts[h].read = "ok"
    /\ inserts[h].reference # NoValue
    /\ inserts[h].removal = "done"
    /\ inserts[h].persisted = "failed"
    /\ ~inserts[h].raised
    /\ CallsOf(h, "broadcastPutSession") = 1

\* A MeterValue INSERT that names a transaction and carries no tariff reference.
MeterValueWithoutTariff ==
  /\ handled.handler = "handleMeterValueInsert"
  /\ ~Falsy(handled.payload.transactionId)
  /\ handled.payload.tariffId = 0

\* A MeterValue INSERT that names no transaction.
MeterValueWithoutTransaction ==
  /\ handled.handler = "handleMeterValueInsert"
  /\ Falsy(handled.payload.transactionId)

\* C29: a MeterValue INSERT that names a transaction but has no tariffId is
\* dropped with neither the transaction lookup nor the charging-period PATCH,
\* and its handler does not reject; a MeterValue INSERT without transactionId
\* causes no broadcast either.
C29_MeterValueWithoutTariffDropped ==
  /\ MeterValueWithoutTariff =>
       /\ Calls("getTransactionById") = 0
       /\ Calls("broadcastPatchSessionChargingPeriod") = 0
       /\ handled.calls = <<>>
       /\ ~handled.raised
  /\ MeterValueWithoutTransaction =>
       /\ Calls("broadcastPatchSessionChargingPeriod") = 0
       /\ handled.calls = <<>>

\* C29 witness: a meter value with tenant and transactionId and no tariffId
\* was dropped with the warning.
C29_Witness ==
  /\ MeterValueWithoutTariff
  /\ handled.payload.tenant
  /\ handled.logs = <<"warn">>
  /\ handled.calls = <<>>

\* The pushes of the session, CDR and locations broadcasters.
BroadcastOperations ==
  {"broadcastPatchSessionChargingPeriod", "broadcastPatchSession", "broadcastPutSession",
   "broadcastToClients", "broadcastPutLocation", "broadcastPatchLocation",
   "broadcastPutEvse", "broadcastPatchEvse", "broadcastPatchEvseStatus",
   "broadcastPutConnector", "broadcastPatchConnector"}

BroadcastsMade ==
  Len(SelectSeq(handled.calls, LAMBDA c : c \in BroadcastOperations))

\* The handlers that resolve the owning charging station of their payload.
StationChildHandlers ==
  {"handleEvseInsert", "handleEvseUpdate", "handleConnectorInsert",
   "handleConnectorUpdate"}

\* The event handled has a tenant and its station request answered with a row.
OwningStationFound ==
  /\ handled.handler \in StationChildHandlers
  /\ handled.payload.tenant
  /\ ~handled.answers.station.throws
  /\ Len(handled.answers.station.rows) = 1

\* A status-only connector update whose station lists no connector of the
\* update's EVSE and station.
StatusWithoutSiblings ==
  /\ handled.handler = "handleConnectorUpdate"
  /\ OnlyStatusChanged
  /\ ~SiblingConnectorsFound

\* C30: a handler whose payload has no tenant makes no data-store call and no
\* broadcast; an EVSE INSERT/UPDATE or Connector INSERT/UPDATE handler whose
\* station is not found makes no broadcast; a status-only Connector UPDATE
\* whose station lists no connector of the same evseId and stationId makes no
\* broadcast; in every other case of these four handlers the station request
\* comes first and the one broadcast carries the station it answered with.
C30_ContextResolvedBeforeBroadcast ==
  /\ (handled.handler # "none" /\ ~handled.payload.tenant) =>
       /\ handled.calls = <<>>
       /\ handled.carried = <<>>
  /\ \A h \in InsertHandlers :
       (inserts[h].pc # "idle" /\ ~inserts[h].tenant) =>
         /\ inserts[h].steps = <<>>
         /\ inserts[h].put = <<>>
  /\ (handled.handler \in StationChildHandlers /\ ~OwningStationFound) =>
       BroadcastsMade = 0
  /\ (OwningStationFound /\ StatusWithoutSiblings) => BroadcastsMade = 0
  /\ (OwningStationFound /\ ~StatusWithoutSiblings) =>
       /\ BroadcastsMade = 1
       /\ handled.calls[1] = "getChargingStationById"
       /\ handled.carried = <<handled.answers.station.rows[1]>>

\* C30 witness: an EVSE INSERT whose station was found was broadcast with
\* that station in its payload.
C30_Witness ==
  /\ OwningStationFound
  /\ handled.handler = "handleEvseInsert"
  /\ handled.calls = <<"getChargingStationById", "broadcastPutEvse">>
  /\ handled.carried = <<handled.answers.station.rows[1]>>
  /\ handled.carried[1].connectors # <<>>

\* The handler each (eventType, objectType) is registered for in the Sessions
\* and Locations modules ("none": no registration).
RegisteredHandler(event) ==
  CASE event = <<"INSERT", "Transaction">> -> "handleTransactionInsert"
    [] event = <<"UPDATE", "Transaction">> -> "handleTransactionUpdate"
    [] event = <<"INSERT", "MeterValue">> -> "handleMeterValueInsert"
    [] event = <<"INSERT", "Location">> -> "handleLocationInsert"
    [] event = <<"UPDATE", "Location">> -> "handleLocationUpdate"
    [] event = <<"UPDATE", "ChargingStation">> -> "handleChargingStationUpdate"
    [] event = <<"INSERT", "Evse">> -> "handleEvseInsert"
    [] event = <<"UPDATE", "Evse">> -> "handleEvseUpdate"
    [] event = <<"INSERT", "Connector">> -> "handleConnectorInsert"
    [] event = <<"UPDATE", "Connector">> -> "handleConnectorUpdate"
    [] OTHER -> "none"

\* C31: no (eventType, objectType) has two registrations; an event received
\* invokes the handler registered for exactly its pair and no other, an
\* event of an unregistered pair such as (UPDATE, MeterValue) or
\* (INSERT, ChargingStation) invokes none, and the handler of
\* (UPDATE, ChargingStation) makes no call and no broadcast.
C31_OneHandlerPerEvent ==
  /\ \A event \in ChangeEvents :
       Cardinality({ r \in Registrations : /\ r.eventType = event[1]
                                           /\ r.objectType = event[2] }) <= 1
  /\ handled.handler # "none" => handled.event \in ChangeEvents
  /\ handled.event # <<>> =>
       /\ handled.handler = RegisteredHandler(handled.event)
       /\ handled.event \in {<<"UPDATE", "MeterValue">>, <<"INSERT", "ChargingStation">>}
            => handled.handler = "none"
  /\ \A h \in InsertHandlers :
       inserts[h].pc # "idle" => inserts[h].event = <<"INSERT", "Transaction">>
  /\ handled.handler = "handleChargingStationUpdate" =>
       /\ handled.calls = <<>>
       /\ BroadcastsMade = 0

\* C31 witness: a MeterValue UPDATE was received and discarded with no
\* handler invoked.
C31_Witness ==
  /\ handled.event = <<"UPDATE", "MeterValue">>
  /\ handled.handler = "none"
  /\ handled.calls = <<>>
  /\ handled.logs = <<"debug">>

\* A MeterValue INSERT with tenant, transactionId and tariffId whose
\* transaction could not be read: the lookup threw or found no row.
MeterValueOfUnreadTransaction ==
  /\ handled.handler = "handleMeterValueInsert"
  /\ handled.payload.tenant
  /\ ~Falsy(handled.payload.transactionId)
  /\ handled.payload.tariffId # 0
  /\ \/ handled.answers.transaction.throws
     \/ handled.answers.transaction.rows = <<>>

\* C37: when the transaction of a meter value is not found, or its lookup
\* throws, the meter value is not taken for the initial reading: the lookup
\* is made once, the charging-period PATCH is broadcast once, whatever the
\* timestamp, and the handler does not reject.
C37_SuppressionFailsOpen ==
  MeterValueOfUnreadTransaction =>
    /\ handled.calls = <<"getTransactionById", "broadcastPatchSessionChargingPeriod">>
    /\ Calls("broadcastPatchSessionChargingPeriod") = 1
    /\ ~handled.raised
    /\ handled.answers.transaction.throws => handled.logs[1] = "error"
    /\ ~handled.answers.transaction.throws => handled.logs[1] = "warn"

\* C37 witness: a meter value stamped with the start time of its transaction
\* was pushed because the transaction was not found.
C37_Witness ==
  /\ MeterValueOfUnreadTransaction
  /\ handled.answers.transaction.rows = <<>>
  /\ ~handled.answers.transaction.throws
  /\ \A t \in StartTimes : handled.payload.timestamp = t
  /\ Calls("broadcastPatchSessionChargingPeriod") = 1

\* ============================================================ token functions

\* How often one function is applied to the same input.
MaxCalls == 2

\* Entries of an additional-info list given to mergeAdditionalInfo.
MaxInfo == 2

\* The longest normalized token id: tokenUid.length <= 20, substring(0, 20).
MaxIdTokenLength == 20

\* A string is the sequence of its characters.
HexDigits ==
  <<"0", "1", "2", "3", "4", "5", "6", "7", "8", "9",
    "a", "b", "c", "d", "e", "f">>

Characters == HexDigits \o <<"A", "Z", "-">>

CodeOf(c) == CHOOSE i \in 1..Len(Characters) : Characters[i] = c

\* The string of length n that repeats a pattern.
Repeat(pattern, n) == [i \in 1..n |-> pattern[((i - 1) % Len(pattern)) + 1]]

\* An absent token uid.
NoUid == <<NoValue>>

TokenUids ==
  {NoUid, <<>>} \cup
  { Repeat(pattern, n) :
      pattern \in {<<"Z", "-", "A">>, <<"0", "a", "7">>, <<"f">>},
      n \in {1, 19, 20, 21, 22, 36} }

RECURSIVE WeightedSum(_, _, _)
WeightedSum(s, i, k) ==
  IF i > Len(s) THEN 0
  ELSE (CodeOf(s[i]) * (i + k) + WeightedSum(s, i + 1, k)) % 65536

\* createHash('sha256').update(tokenUid).digest('hex'): 64 hexadecimal
\* characters determined by the input alone. The digest itself is not
\* computed; a fixed mixing of the characters stands for it.
Sha256Hex(s) ==
  [k \in 1..64 |-> HexDigits[((WeightedSum(s, 1, k) + 7 * k) % 16) + 1]]

\* Variant: a uid of exactly the maximal length is hashed as well.
NormalizeTokenBelowLimit(tokenUid) ==
  IF tokenUid = NoUid \/ Len(tokenUid) = 0 THEN NoUid
  ELSE IF Len(tokenUid) < MaxIdTokenLength THEN tokenUid
  ELSE SubSeq(Sha256Hex(tokenUid), 1, MaxIdTokenLength)

\* TokensMapper.normalizeToken
NormalizeToken(tokenUid) ==
  IF tokenUid = NoUid \/ Len(tokenUid) = 0 THEN NoUid
  ELSE IF Len(tokenUid) <= MaxIdTokenLength THEN tokenUid
  ELSE SubSeq(Sha256Hex(tokenUid), 1, MaxIdTokenLength)

\* A value returned, or an error thrown.
Value(v) == [value |-> v, thrown |-> FALSE]
Throws == [value |-> NoValue, thrown |-> TRUE]

TokenCall(fn, input) == [fn |-> fn, input |-> input, outputs |-> <<>>]

\* One more application of the function to its input.
Apply(fn, output) ==
  /\ token.fn = fn
  /\ Len(token.outputs) < MaxCalls
  /\ token' = [token EXCEPT !.outputs = Append(@, output)]
  /\ UNCHANGED <<commandVars, eventVars, mapperVars, redisVars, upsertVars,
                 resolutions, groupStore>>

NormalizeTokenCall ==
  Apply("normalizeToken", Value(NormalizeToken(token.input.uid)))

\* ------------------------------------------------------- mergeAdditionalInfo

\* The additional infos that mapOcpiTokenToPartialOcppAuthorization builds
\* from contract_id, visual_number and issuer: eMAID and visual_number when
\* there is a contract_id, visual_number alone, issuer; never empty here,
\* because patchToken merges only when the partial list exists.
NewTokenValues == {"new-1", "new-2"}

Info(type, additionalIdToken) ==
  [type |-> type, additionalIdToken |-> additionalIdToken]

NewPartials ==
  LET contract == {<<>>} \cup
        { <<Info("eMAID", c), Info("visual_number", v)>> :
            c \in NewTokenValues, v \in NewTokenValues }
      visual == {<<>>} \cup { <<Info("visual_number", v)>> : v \in NewTokenValues }
      issuer == {<<>>} \cup { <<Info("issuer", i)>> : i \in NewTokenValues }
      heads == contract \cup (visual \ {<<>>}) IN
  { h \o i : h \in heads, i \in issuer } \ {<<>>}

\* The additional infos stored with the existing authorization.
OldInfos ==
  { Info(type, additionalIdToken) :
      type \in {"eMAID", "visual_number", "issuer", "Local"},
      additionalIdToken \in {"old-a", "old-b"} }

OldCompletes == UNION { [1..n -> OldInfos] : n \in 0..MaxInfo }

\* newPartialAdditionalInfo.find((updatedValue) => updatedValue.type === type)
Find(newPartialAdditionalInfo, type) ==
  LET matches == { j \in 1..Len(newPartialAdditionalInfo) :
                     newPartialAdditionalInfo[j].type = type } IN
  IF matches = {} THEN <<>>
  ELSE <<newPartialAdditionalInfo[CHOOSE j \in matches : \A k \in matches : j <= k]>>

\* Variant: a union, which appends the entries found only in the new list.
MergeAdditionalInfoUnion(newPartialAdditionalInfo, oldCompleteAdditionalInfo) ==
  oldCompleteAdditionalInfo \o
    SelectSeq(newPartialAdditionalInfo,
              LAMBDA n : \A i \in 1..Len(oldCompleteAdditionalInfo) :
                           oldCompleteAdditionalInfo[i].type # n.type)

\* TokensService.mergeAdditionalInfo
MergeAdditionalInfo(newPartialAdditionalInfo, oldCompleteAdditionalInfo) ==
  [i \in 1..Len(oldCompleteAdditionalInfo) |->
     LET value == oldCompleteAdditionalInfo[i]
         updatedAdditionalInfo == Find(newPartialAdditionalInfo, value.type) IN
     IF updatedAdditionalInfo # <<>>
       THEN [value EXCEPT !.additionalIdToken = updatedAdditionalInfo[1].additionalIdToken]
       ELSE value]

MergeAdditionalInfoCall ==
  Apply("mergeAdditionalInfo",
        Value(MergeAdditionalInfo(token.input.newPartial, token.input.oldComplete)))

\* ------------------------------------------------------- token type mapping

\* TokenType values a request may carry, with one outside the enumeration.
OcpiTokenTypes == {"RFID", "AD_HOC_USER", "APP_USER", "OTHER", "BOGUS"}

\* IdTokenType values, and the absent values null and undefined.
OcppIdTokenTypes ==
  {"Central", "eMAID", "ISO14443", "ISO15693", "KeyCode", "Local",
   "MacAddress", "NoAuthorization", "Other", "null", NoValue}

\* TokensMapper.mapOcpiTokenTypeToOcppIdTokenType
MapOcpiTokenTypeToOcppIdTokenType(type) ==
  CASE type = "RFID" -> Value("ISO14443")
    [] type = "AD_HOC_USER" -> Value("Local")
    [] type = "APP_USER" -> Value("Central")
    [] type = "OTHER" -> Value("Other")
    [] OTHER -> Throws

\* TokensMapper.mapOcppIdTokenTypeToOcpiTokenType: the case null is matched
\* with ===, which undefined does not satisfy.
MapOcppIdTokenTypeToOcpiTokenType(type) ==
  CASE type = "ISO14443" -> Value("RFID")
    [] type = "Local" -> Value("AD_HOC_USER")
    [] type = "Central" -> Value("APP_USER")
    [] type = "null" -> Value("OTHER")
    [] OTHER -> Throws

MapOcpiTokenTypeCall ==
  Apply("mapOcpiTokenTypeToOcppIdTokenType",
        MapOcpiTokenTypeToOcppIdTokenType(token.input.type))

MapOcppIdTokenTypeCall ==
  Apply("mapOcppIdTokenTypeToOcpiTokenType",
        MapOcppIdTokenTypeToOcpiTokenType(token.input.type))

\* ----------------------------------- token to authorization, and back

\* TokensMapper.mapOcpiTokenToPartialOcppAuthorization: the fields of the
\* authorization that toDto reads back. An absent customData is <<>>.
MapOcpiTokenToPartialOcppAuthorization(tokenDto) ==
  LET originalTokenUid == tokenDto.uid
      idToken == NormalizeToken(tokenDto.uid)
      idTokenType ==
        IF Falsy(tokenDto.type) THEN Value(NoValue)
        ELSE MapOcpiTokenTypeToOcppIdTokenType(tokenDto.type)
      partialAdditionalInfo ==
        (IF Falsy(tokenDto.contract_id) THEN <<>>
         ELSE <<Info("eMAID", tokenDto.contract_id)>>)
        \o (IF ~Falsy(tokenDto.visual_number)
              THEN <<Info("visual_number", tokenDto.visual_number)>>
            ELSE IF ~Falsy(tokenDto.contract_id)
              THEN <<Info("visual_number", tokenDto.contract_id)>>
            ELSE <<>>)
        \o (IF Falsy(tokenDto.issuer) THEN <<>>
            ELSE <<Info("issuer", tokenDto.issuer)>>)
      customData ==
        IF originalTokenUid # NoUid /\ Len(originalTokenUid) > 0
             /\ originalTokenUid # idToken
          THEN <<[original_token_uid |-> originalTokenUid]>>
          ELSE <<>>
  IN IF idTokenType.thrown THEN Throws
     ELSE Value([additionalInfo |-> partialAdditionalInfo, idToken |-> idToken,
                 idTokenType |-> idTokenType.value, customData |-> customData])

\* customData?.original_token_uid || authorization.idToken
OriginalTokenUid(authorization) ==
  IF Len(authorization.customData) > 0
       /\ Len(authorization.customData[1].original_token_uid) > 0
    THEN authorization.customData[1].original_token_uid
    ELSE authorization.idToken

\* getContractId, getVisualNumber, getIssuer: the entry of the type, absent
\* when there is none or its value is empty.
AdditionalIdToken(authorization, type) ==
  LET info == Find(authorization.additionalInfo, type)
  IN IF Len(info) = 0 \/ Falsy(info[1].additionalIdToken) THEN NoValue
     ELSE info[1].additionalIdToken

\* TokensMapper.toDto on an authorization of the store, which carries its
\* tenantPartner: the type mapping and the three getters may throw.
ToDto(authorization) ==
  LET type ==
        MapOcppIdTokenTypeToOcpiTokenType(
          IF Falsy(authorization.idTokenType) THEN "null" ELSE authorization.idTokenType)
      contract_id == AdditionalIdToken(authorization, "eMAID")
      visual_number == AdditionalIdToken(authorization, "visual_number")
      issuer == AdditionalIdToken(authorization, "issuer")
  IN IF type.thrown \/ NoValue \in {contract_id, visual_number, issuer} THEN Throws
     ELSE Value([uid |-> OriginalTokenUid(authorization), type |-> type.value,
                 contract_id |-> contract_id, visual_number |-> visual_number,
                 issuer |-> issuer])

\* The token is mapped to an authorization, which the store keeps as it is
\* and returns, and toDto maps it back (upsertToken's create branch).
ToDtoCall ==
  LET authorization == MapOcpiTokenToPartialOcppAuthorization(token.input)
  IN Apply("toDto", IF authorization.thrown THEN Throws ELSE ToDto(authorization.value))

\* ---------------------------------------------------------------- patchToken

\* tokenDto.valid ? AuthorizationStatusType.Accepted : AuthorizationStatusType.Invalid
StatusOf(tokenDto) == IF tokenDto.valid = "true" THEN "Accepted" ELSE "Invalid"

\* TokensMapper.mapWhitelistType: ALWAYS is stored as null, an absent or
\* unknown whitelist is undefined.
MapWhitelistType(whitelist) ==
  CASE whitelist = "ALLOWED" -> "Allowed"
    [] whitelist = "ALLOWED_OFFLINE" -> "AllowedOffline"
    [] whitelist = "NEVER" -> "Never"
    [] whitelist = "ALWAYS" -> "null"
    [] OTHER -> NoValue

\* What patchToken did: the value returned or the error thrown, the keys of
\* the set it sent with UPDATE_TOKEN_MUTATION (none when it sent no mutation),
\* and the stored authorization afterwards.
Patched(returned, keys, authorization) ==
  [value |-> returned.value, thrown |-> returned.thrown, error |-> NoValue,
   keys |-> keys, authorization |-> authorization]

PatchThrown(error, authorization) ==
  [value |-> NoValue, thrown |-> TRUE, error |-> error, keys |-> {},
   authorization |-> authorization]

\* The id that handleGroupAuthorization returns for the group_id of a patch.
GroupAuthorizationIds == {7}

\* TokensService.patchToken on the rows that GET_AUTHORIZATION_BY_TOKEN
\* answers with: the set is built from the mapped partial token and sent.
PatchedAuthorization(type, partialToken, existingAuth) ==
  IF partialToken.last_updated = 0 THEN PatchThrown("MissingParamException", existingAuth)
  ELSE
  LET idTokenType == MapOcpiTokenTypeToOcppIdTokenType(type)
      authorization == MapOcpiTokenToPartialOcppAuthorization(partialToken)
  IN
  IF idTokenType.thrown \/ authorization.thrown
    THEN PatchThrown("Error", existingAuth)
  ELSE IF Len(existingAuth) < 1
    THEN PatchThrown("UnknownTokenException", existingAuth)
  ELSE
  LET old == existingAuth[1]
      status == StatusOf(partialToken)
      language1 == partialToken.language
      realTimeAuth == MapWhitelistType(partialToken.whitelist)
      withInfo == Len(authorization.value.additionalInfo) > 0
      withCustomData == Len(authorization.value.customData) > 0
      keys ==
        {"updatedAt"}
          \cup (IF withInfo THEN {"additionalInfo"} ELSE {})
          \cup (IF withCustomData THEN {"customData"} ELSE {})
          \cup (IF ~Falsy(status) THEN {"status"} ELSE {})
          \cup (IF ~Falsy(language1) THEN {"language1"} ELSE {})
          \cup (IF ~Falsy(partialToken.group_id) THEN {"groupAuthorizationId"} ELSE {})
          \cup (IF realTimeAuth # NoValue THEN {"realTimeAuth"} ELSE {})
      updated ==
        [old EXCEPT
           !.updatedAt = partialToken.last_updated,
           !.additionalInfo =
              IF ~withInfo THEN @
              ELSE IF Len(@) > 0
                THEN MergeAdditionalInfo(authorization.value.additionalInfo, @)
              ELSE authorization.value.additionalInfo,
           !.customData = IF withCustomData THEN authorization.value.customData ELSE @,
           !.status = IF ~Falsy(status) THEN status ELSE @,
           !.language1 = IF ~Falsy(language1) THEN language1 ELSE @,
           !.groupAuthorizationId =
              IF ~Falsy(partialToken.group_id) THEN CHOOSE id \in GroupAuthorizationIds : TRUE
              ELSE @,
           !.realTimeAuth = IF realTimeAuth # NoValue THEN realTimeAuth ELSE @]
  IN Patched(ToDto(updated), keys, <<updated>>)

\* patchToken(tokenUid, type, token, ...): the uid and the type come with the
\* request path, the partial token of the body carries neither.
PatchTokenCall ==
  Apply("patchToken",
        PatchedAuthorization(token.input.type,
                             [token.input EXCEPT !.uid = NoUid, !.type = NoValue],
                             token.input.existing))

\* The authorizations a patch may meet: a valid one with every optional field
\* set, and an invalid one with none.
StoredAuthorizations ==
  { [idToken |-> <<"A", "A">>, idTokenType |-> "ISO14443", status |-> "Accepted",
     language1 |-> "nl", realTimeAuth |-> "Never", groupAuthorizationId |-> 3,
     additionalInfo |-> <<Info("eMAID", "old-a"), Info("visual_number", "old-a"),
                          Info("issuer", "old-b")>>,
     customData |-> <<>>, updatedAt |-> 1],
    [idToken |-> <<"A", "A">>, idTokenType |-> "ISO14443", status |-> "Invalid",
     language1 |-> NoValue, realTimeAuth |-> "null", groupAuthorizationId |-> 0,
     additionalInfo |-> <<>>, customData |-> <<>>, updatedAt |-> 1] }

\* Partial tokens of a PATCH, each field supplied or not, and what the query
\* for the token answers.
PatchTokenCalls ==
  { TokenCall("patchToken",
              [NoInput EXCEPT !.uid = <<"A", "A">>, !.type = t, !.valid = v,
                              !.language = l, !.whitelist = w, !.group_id = g,
                              !.contract_id = i[1], !.issuer = i[2],
                              !.last_updated = u, !.existing = e]) :
      t \in {"RFID", "BOGUS"}, v \in {NoValue, "true", "false"},
      l \in {NoValue, "en"}, w \in {NoValue, "ALWAYS", "NEVER"},
      g \in {NoValue, "G1"},
      i \in {<<NoValue, NoValue>>, <<"NL-AAA-C1", "Issuer">>},
      u \in {0, 2}, e \in {<<>>} \cup { <<a>> : a \in StoredAuthorizations } }

\* ------------------------------------------------------------- applications

TokenCalls ==
  { TokenCall("normalizeToken", [NoInput EXCEPT !.uid = uid]) : uid \in TokenUids }
    \cup { TokenCall("mergeAdditionalInfo",
                     [NoInput EXCEPT !.newPartial = n, !.oldComplete = o]) :
             n \in NewPartials, o \in OldCompletes }
    \cup { TokenCall("mapOcpiTokenTypeToOcppIdTokenType", [NoInput EXCEPT !.type = t]) :
             t \in OcpiTokenTypes }
    \cup { TokenCall("mapOcppIdTokenTypeToOcpiTokenType", [NoInput EXCEPT !.type = t]) :
             t \in OcppIdTokenTypes }
    \cup { TokenCall("toDto",
                     [NoInput EXCEPT !.uid = uid, !.type = t, !.contract_id = i[1],
                                     !.visual_number = i[2], !.issuer = i[3]]) :
             uid \in TokenUids, t \in OcpiTokenTypes \ {"AD_HOC_USER"},
             i \in {<<"NL-AAA-C1", NoValue, "Issuer">>, <<"NL-AAA-C1", "V1", "Issuer">>,
                    <<NoValue, NoValue, NoValue>>} }
    \cup PatchTokenCalls

TokenInit ==
  /\ NoCommands
  /\ NoChanges
  /\ NoEvents
  /\ NoPrices
  /\ NoUpserts
  /\ token \in TokenCalls
  /\ resolutions = [c \in Callers |-> IdleResolution]
  /\ groupStore = [unique |-> FALSE, rows |-> <<>>]

TokenNext ==
  \/ NormalizeTokenCall
  \/ MergeAdditionalInfoCall
  \/ MapOcpiTokenTypeCall
  \/ MapOcppIdTokenTypeCall
  \/ ToDtoCall
  \/ PatchTokenCall

TokenSpec == TokenInit /\ [][TokenNext]_vars



\* -------------------------------------------------- claims on token functions

Applied(fn) == token.fn = fn /\ Len(token.outputs) > 0

IsHex(s) == \A i \in 1..Len(s) : \E d \in 1..Len(HexDigits) : s[i] = HexDigits[d]

\* C17: normalizeToken returns a non-empty uid of at most 20 characters
\* unchanged; for a longer uid it returns exactly 20 hexadecimal characters,
\* and every call on the same uid returns the same value.
C17_NormalizeTokenBounded ==
  Applied("normalizeToken") =>
    \A k \in 1..Len(token.outputs) :
      LET uid == token.input.uid
          result == token.outputs[k] IN
      /\ ~result.thrown
      /\ result = token.outputs[1]
      /\ uid # NoUid /\ Len(uid) \in 1..20 => result.value = uid
      /\ uid # NoUid /\ Len(uid) > 20 =>
           /\ Len(result.value) = 20
           /\ IsHex(result.value)

\* A uid of 20 characters was returned as it is, twice.
C17_Witness ==
  /\ Applied("normalizeToken")
  /\ token.input.uid # NoUid
  /\ Len(token.input.uid) = 20
  /\ token.outputs = <<Value(token.input.uid), Value(token.input.uid)>>

\* The types that occur in the new partial list.
NewTypes ==
  { token.input.newPartial[j].type : j \in 1..Len(token.input.newPartial) }

\* The value the new partial list gives for a type it contains.
NewValueOf(type) ==
  LET j == CHOOSE j \in 1..Len(token.input.newPartial) :
             token.input.newPartial[j].type = type IN
  token.input.newPartial[j].additionalIdToken

\* C18: the list mergeAdditionalInfo returns has the entries of oldComplete,
\* with the same types in the same order and number; an entry whose type
\* occurs in newPartial carries the new additionalIdToken, every other entry
\* is unchanged, and a type found only in newPartial is not added.
C18_MergeKeepsOldKeys ==
  Applied("mergeAdditionalInfo") =>
    LET old == token.input.oldComplete
        merged == token.outputs[1].value IN
    /\ ~token.outputs[1].thrown
    /\ Len(merged) = Len(old)
    /\ \A i \in 1..Len(old) :
         /\ merged[i].type = old[i].type
         /\ old[i].type \in NewTypes =>
              merged[i].additionalIdToken = NewValueOf(old[i].type)
         /\ old[i].type \notin NewTypes => merged[i] = old[i]

\* A merge in which one old entry was overwritten, one was kept, and a type
\* of the new list was not added.
C18_Witness ==
  /\ Applied("mergeAdditionalInfo")
  /\ token.input.oldComplete = <<Info("issuer", "old-a"), Info("Local", "old-b")>>
  /\ token.input.newPartial = <<Info("visual_number", "new-1"), Info("issuer", "new-2")>>
  /\ token.outputs[1].value = <<Info("issuer", "new-2"), Info("Local", "old-b")>>

\* C19: mapping an external token type outside the table to the internal
\* one throws; mapping an absent internal type (null or undefined) to the
\* external one returns OTHER and does not throw.
C19_UnmappedThrowsAbsentIsOther ==
  /\ Applied("mapOcpiTokenTypeToOcppIdTokenType")
       /\ token.input.type \notin {"RFID", "AD_HOC_USER", "APP_USER", "OTHER"}
       => token.outputs[1].thrown
  /\ Applied("mapOcppIdTokenTypeToOcpiTokenType")
       /\ token.input.type \in {"null", NoValue}
       => token.outputs[1] = Value("OTHER")

\* A token as a partner pushes it: a uid, a type of the enumeration, the
\* contract id and the issuer.
CompleteToken ==
  /\ token.input.uid # NoUid
  /\ Len(token.input.uid) > 0
  /\ token.input.type \in {"RFID", "AD_HOC_USER", "APP_USER", "OTHER"}
  /\ token.input.contract_id # NoValue
  /\ token.input.issuer # NoValue

\* C26: for every token uid u, the authorization mapped from the token
\* stores the normalized id and, exactly when the normalized id differs from
\* u, stores u as original_token_uid; toDto maps that authorization back to
\* uid = u, for uids of at most 20 characters and for longer ones alike.
C26_UidRoundTrip ==
  (Applied("toDto") /\ CompleteToken) =>
    LET u == token.input.uid
        authorization == MapOcpiTokenToPartialOcppAuthorization(token.input)
    IN /\ ~authorization.thrown
       /\ authorization.value.idToken = NormalizeToken(u)
       /\ authorization.value.customData =
            IF NormalizeToken(u) # u THEN <<[original_token_uid |-> u]>> ELSE <<>>
       /\ \A k \in 1..Len(token.outputs) :
            ~token.outputs[k].thrown /\ token.outputs[k].value.uid = u

\* C33: for every external token type t of RFID, AD_HOC_USER, APP_USER and
\* OTHER, mapping t to the internal id-token-type does not throw, and mapping
\* the result back does not throw and returns t.
C33_TypeTableBidirectional ==
  (/\ Applied("mapOcpiTokenTypeToOcppIdTokenType")
   /\ token.input.type \in {"RFID", "AD_HOC_USER", "APP_USER", "OTHER"}) =>
    \A k \in 1..Len(token.outputs) :
      /\ ~token.outputs[k].thrown
      /\ MapOcppIdTokenTypeToOcpiTokenType(token.outputs[k].value)
           = Value(token.input.type)

\* The authorization that the query of a patch answered with, and the stored
\* one after the k-th application of the patch.
ExistingAuthorization == token.input.existing[1]

PatchedTo(k) == token.outputs[k].authorization[1]

\* The fields of the authorization that a patch supplies something for.
SuppliedFields ==
  (IF token.input.valid # NoValue THEN {"status"} ELSE {})
    \cup (IF token.input.language # NoValue THEN {"language1"} ELSE {})
    \cup (IF token.input.whitelist # NoValue THEN {"realTimeAuth"} ELSE {})
    \cup (IF token.input.group_id # NoValue THEN {"groupAuthorizationId"} ELSE {})
    \cup (IF token.input.contract_id # NoValue \/ token.input.issuer # NoValue
            THEN {"additionalInfo"} ELSE {})

\* C34: patchToken writes only updatedAt and the authorization fields that
\* the partial token supplies: without `valid` the status stays as it was,
\* without language, whitelist, group_id and additional-info fields those
\* stay as they were; a patch for a token with no authorization throws
\* UnknownTokenException and writes nothing.
C34_PatchWritesSuppliedFieldsOnly ==
  Applied("patchToken") =>
    \A k \in 1..Len(token.outputs) :
      /\ token.outputs[k].keys \subseteq SuppliedFields \cup {"updatedAt"}
      /\ (token.outputs[k].keys # {} /\ token.input.valid = NoValue) =>
           PatchedTo(k).status = ExistingAuthorization.status
      /\ (token.outputs[k].keys # {} /\ token.input.language = NoValue) =>
           PatchedTo(k).language1 = ExistingAuthorization.language1
      /\ (token.outputs[k].keys # {} /\ token.input.whitelist = NoValue) =>
           PatchedTo(k).realTimeAuth = ExistingAuthorization.realTimeAuth
      /\ (token.outputs[k].keys # {} /\ token.input.group_id = NoValue) =>
           PatchedTo(k).groupAuthorizationId = ExistingAuthorization.groupAuthorizationId
      /\ (token.outputs[k].keys # {} /\ "additionalInfo" \notin SuppliedFields) =>
           PatchedTo(k).additionalInfo = ExistingAuthorization.additionalInfo
      /\ (token.input.existing = <<>> /\ token.input.last_updated # 0
          /\ token.input.type = "RFID") =>
           /\ token.outputs[k].thrown
           /\ token.outputs[k].error = "UnknownTokenException"
           /\ token.outputs[k].keys = {}
           /\ token.outputs[k].authorization = <<>>

\* ===================================================== group authorization

\* The placeholder that handleGroupAuthorization creates for a group id.
GroupAuthorization(id) ==
  [id |-> id, idTokenType |-> "Central", status |-> "Invalid"]

\* upsertToken or patchToken with a group_id calls handleGroupAuthorization,
\* which requests the existing group authorization.
ResolveGroup(c) ==
  /\ resolutions[c].pc = "idle"
  /\ resolutions' = [resolutions EXCEPT ![c].pc = "query"]
  /\ UNCHANGED <<commandVars, eventVars, mapperVars, redisVars, upsertVars, token, groupStore>>

\* existingGroupAuth.Authorizations.length > 0: the id of the first row.
ExistingGroupAuthorization(rows) ==
  IF Len(rows) > 0 THEN <<rows[1].id>> ELSE <<>>

\* The query returns: an existing row's id is returned, otherwise the create
\* mutation is requested.
GroupQueryReturns(c) ==
  /\ resolutions[c].pc = "query"
  /\ LET existing == ExistingGroupAuthorization(groupStore.rows) IN
     resolutions' = [resolutions EXCEPT ![c] =
       IF existing # <<>>
         THEN [@ EXCEPT !.pc = "done", !.found = Len(groupStore.rows),
                        !.id = existing[1]]
         ELSE [@ EXCEPT !.pc = "create"]]
  /\ UNCHANGED <<commandVars, eventVars, mapperVars, redisVars, upsertVars, token, groupStore>>

\* The create mutation returns. A store that keeps idToken unique per
\* partner rejects a second row for the group id, and the awaited request
\* throws out of handleGroupAuthorization; another store inserts it.
GroupCreateReturns(c) ==
  /\ resolutions[c].pc = "create"
  /\ IF groupStore.unique /\ Len(groupStore.rows) > 0
       THEN /\ resolutions' = [resolutions EXCEPT ![c].pc = "done", ![c].failed = TRUE]
            /\ UNCHANGED groupStore
       ELSE LET id == Len(groupStore.rows) + 1 IN
            /\ groupStore' = [groupStore EXCEPT !.rows = Append(@, GroupAuthorization(id))]
            /\ resolutions' = [resolutions EXCEPT ![c].pc = "done", ![c].id = id,
                                                  ![c].created = TRUE]
  /\ UNCHANGED <<commandVars, eventVars, mapperVars, redisVars, upsertVars, token>>

\* The call has returned or thrown.
GroupResolved(c) ==
  /\ resolutions[c].pc = "done"
  /\ resolutions' = [resolutions EXCEPT ![c] = IdleResolution]
  /\ UNCHANGED <<commandVars, eventVars, mapperVars, redisVars, upsertVars, token, groupStore>>

HandleGroupAuthorization(c) ==
  \/ ResolveGroup(c)
  \/ GroupQueryReturns(c)
  \/ GroupCreateReturns(c)
  \/ GroupResolved(c)

\* No group authorization exists yet; the store enforces uniqueness or not.
GroupInit ==
  /\ NoCommands
  /\ NoChanges
  /\ NoEvents
  /\ NoPrices
  /\ NoUpserts
  /\ token = NoTokenCall
  /\ resolutions = [c \in Callers |-> IdleResolution]
  /\ groupStore \in [unique : BOOLEAN, rows : {<<>>}]

GroupNext == \E c \in Callers : HandleGroupAuthorization(c)

GroupSpec == GroupInit /\ [][GroupNext]_vars

\* C20: of two overlapping calls that resolve the same group id, neither
\* fails because the other created the group authorization first; a call
\* whose query found a group authorization returns the id of an existing
\* record and creates none; every group authorization created has status
\* Invalid and id-token-type Central.
C20_GroupResolutionIdempotent ==
  /\ \A c \in Callers :
       /\ ~resolutions[c].failed
       /\ resolutions[c].found > 0 =>
            /\ ~resolutions[c].created
            /\ \E i \in 1..Len(groupStore.rows) :
                 groupStore.rows[i].id = resolutions[c].id
  /\ \A i \in 1..Len(groupStore.rows) :
       /\ groupStore.rows[i].status = "Invalid"
       /\ groupStore.rows[i].idTokenType = "Central"

\* ------------------------------------------- BaseTransactionMapper: numbers

\* Status notifications in one answer of the store.
MaxNotifications == 3

\* 1000 * 60 * 60: milliseconds of an hour.
MsPerHour == 3600000

\* idleDurationHours * 60, totalTimeHours * 60
MinutesPerHour == 60

\* Math.floor(x * 100) / 100
Hundred == 100

RECURSIVE Gcd(_, _)
Gcd(a, b) == IF b = 0 THEN a ELSE Gcd(b, a % b)

\* The fraction n / d (d > 0) in lowest terms.
Fraction(n, d) ==
  LET g == Gcd(Abs(n), d) IN [num |-> n \div g, den |-> d \div g]

Number(n) == [num |-> n, den |-> 1]

Times(a, b) == Fraction(a.num * b.num, a.den * b.den)
Plus(a, b) == Fraction(a.num * b.den + b.num * a.den, a.den * b.den)
LessOrEqual(a, b) == a.num * b.den <= b.num * a.den
Less(a, b) == a.num * b.den < b.num * a.den

\* Math.floor
MathFloor(a) == Number(a.num \div a.den)

\* x ?? 0
OrZero(x) == IF x = NoNumber THEN Zero ELSE x

\* The truthiness of a number: neither absent nor 0.
Truthy(x) == x # NoNumber /\ x.num # 0

\* Minutes as milliseconds.
Minutes(n) == n * (MsPerHour \div MinutesPerHour)

\* --------------------------------------------------- getIdleDurationHours

\* new Set(['SuspendedEVSE', 'SuspendedEV', 'Preparing'])
IdleStatuses == {"SuspendedEVSE", "SuspendedEV", "Preparing"}

\* Array.prototype.sort by timestamp: ascending and stable.
RECURSIVE SortByTimestamp(_)
SortByTimestamp(notifications) ==
  IF Len(notifications) <= 1 THEN notifications
  ELSE LET last == notifications[Len(notifications)]
           front == SortByTimestamp(SubSeq(notifications, 1, Len(notifications) - 1))
           k == Cardinality({ i \in 1..Len(front) : front[i].timestamp <= last.timestamp })
       IN SubSeq(front, 1, k) \o <<last>> \o SubSeq(front, k + 1, Len(front))

\* Variant: a span is attributed to the status that ends it.
SpanIsIdleByNextStatus(lastStatus, connectorStatus) == connectorStatus \in IdleStatuses

\* idleStatuses.has(lastStatus): the span that ends at a notification is idle
\* when the status before the notification is.
SpanIsIdle(lastStatus, connectorStatus) == lastStatus \in IdleStatuses

\* The loop over the sorted notifications from index i on.
RECURSIVE Sweep(_, _, _, _, _, _, _)
Sweep(notifications, i, lastTs, lastStatus, idleMs, windowStart, windowEnd) ==
  IF i > Len(notifications)
    THEN [idleMs |-> idleMs, lastTs |-> lastTs, lastStatus |-> lastStatus]
  ELSE LET ts == notifications[i].timestamp
           connectorStatus == notifications[i].connectorStatus
       IN IF ts < windowStart
            THEN Sweep(notifications, i + 1, windowStart, connectorStatus, idleMs,
                       windowStart, windowEnd)
          ELSE IF ts > windowEnd
            THEN [idleMs |-> idleMs, lastTs |-> lastTs, lastStatus |-> lastStatus]
          ELSE Sweep(notifications, i + 1, ts, connectorStatus,
                     IF SpanIsIdle(lastStatus, connectorStatus)
                       THEN idleMs + (ts - lastTs) ELSE idleMs,
                     windowStart, windowEnd)

\* Variant: the connector is taken as idle until the first record.
IdleMsAssumingIdle(notifications, windowStart, windowEnd) ==
  LET swept == Sweep(notifications, 1, windowStart, "Preparing", 0, windowStart,
                     windowEnd)
  IN IF swept.lastStatus \in IdleStatuses
       THEN swept.idleMs + (windowEnd - swept.lastTs)
       ELSE swept.idleMs

\* The idle milliseconds of a non-empty sorted list: the loop, then the span
\* up to the end of the window when the last status is idle.
IdleMs(notifications, windowStart, windowEnd) ==
  LET swept == Sweep(notifications, 1, windowStart, "", 0, windowStart, windowEnd)
  IN IF swept.lastStatus \in IdleStatuses
       THEN swept.idleMs + (windowEnd - swept.lastTs)
       ELSE swept.idleMs

\* Variant: a missing tenant does not stop the calculation.
LacksIdentifiersButTenant(transaction) ==
  \/ Falsy(transaction.stationId)
  \/ transaction.evseId = 0
  \/ transaction.connectorId = 0

\* !transaction.stationId || !transaction.evseId || !transaction.connectorId
\* || !transaction.tenantId
LacksIdentifiers(transaction) ==
  \/ Falsy(transaction.stationId)
  \/ transaction.evseId = 0
  \/ transaction.connectorId = 0
  \/ transaction.tenantId = 0

\* What a cost function did: the value returned or an error thrown, the
\* requests made and the lines logged.
Priced(value, baseCost, idleCost, calls, logs) ==
  [done |-> TRUE, thrown |-> FALSE, value |-> value, baseCost |-> baseCost,
   idleCost |-> idleCost, calls |-> calls, logs |-> logs]

PricingThrown(calls, logs) ==
  [done |-> TRUE, thrown |-> TRUE, value |-> NoNumber, baseCost |-> NoNumber,
   idleCost |-> NoNumber, calls |-> calls, logs |-> logs]

\* BaseTransactionMapper.getIdleDurationHours: the idle hours of the window.
GetIdleDurationHours(transaction, sessionStart, sessionEnd, response) ==
  IF LacksIdentifiers(transaction)
    THEN Priced(Zero, NoNumber, NoNumber, <<>>, <<"debug">>)
  ELSE IF response.throws
    THEN PricingThrown(<<"GET_STATUS_NOTIFICATIONS_IN_RANGE">>, <<>>)
  ELSE LET notifications == SortByTimestamp(response.rows) IN
    IF Len(notifications) = 0
      THEN Priced(Zero, NoNumber, NoNumber,
                  <<"GET_STATUS_NOTIFICATIONS_IN_RANGE">>, <<"debug", "debug">>)
    ELSE Priced(Fraction(IdleMs(notifications, sessionStart, sessionEnd), MsPerHour),
                NoNumber, NoNumber,
                <<"GET_STATUS_NOTIFICATIONS_IN_RANGE">>, <<"debug", "debug", "debug">>)

\* ------------------------------------------ calculateTotalCostFromDatabase

\* ------------------------------------------------------ double arithmetic

\* The significant bits of a double (IEEE 754 binary64).
SignificandBits == 53

\* num / den = (num' / den') * 2^exp with 1/2 <= num' / den' < 1.
RECURSIVE Normalized(_, _, _)
Normalized(num, den, exp) ==
  IF num >= den THEN Normalized(num, 2 * den, exp + 1)
  ELSE IF 2 * num < den THEN Normalized(2 * num, den, exp - 1)
  ELSE [num |-> num, den |-> den, exp |-> exp]

\* The significand is computed in four blocks of bits, one after the other.
Quarter == SignificandBits \div 4

\* The first n bits of r / den after the binary point, and the remainder.
RECURSIVE QuotientBlock(_, _, _)
QuotientBlock(r, den, n) ==
  IF n = 0 THEN [bits |-> <<>>, rem |-> r]
  ELSE LET bit == IF 2 * r >= den THEN 1 ELSE 0
           rest == QuotientBlock(2 * r - bit * den, den, n - 1)
       IN [bits |-> <<bit>> \o rest.bits, rem |-> rest.rem]

\* The first 53 bits of r / den after the binary point, and the remainder.
QuotientBits(r, den) ==
  LET q1 == QuotientBlock(r, den, Quarter)
      q2 == QuotientBlock(q1.rem, den, Quarter)
      q3 == QuotientBlock(q2.rem, den, Quarter)
      q4 == QuotientBlock(q3.rem, den, SignificandBits - 3 * Quarter)
  IN [bits |-> q1.bits \o q2.bits \o q3.bits \o q4.bits, rem |-> q4.rem]

\* The bits plus one unit in the last place; one bit longer on overflow.
RECURSIVE Increment(_)
Increment(bits) ==
  IF Len(bits) = 0 THEN <<1>>
  ELSE IF bits[Len(bits)] = 0 THEN SubSeq(bits, 1, Len(bits) - 1) \o <<1>>
  ELSE Increment(SubSeq(bits, 1, Len(bits) - 1)) \o <<0>>

\* A double 0.b1 b2 ... b53 * 2^exp (b1 = 1); zero has no bits.
Double(bits, exp, roundUp) ==
  LET rounded == IF roundUp THEN Increment(bits) ELSE bits
  IN IF Len(rounded) > SignificandBits
       THEN [bits |-> SubSeq(rounded, 1, SignificandBits), exp |-> exp + 1]
       ELSE [bits |-> rounded, exp |-> exp]

\* The double nearest to a fraction >= 0 (round to nearest, ties to even).
ToDouble(x) ==
  IF x.num = 0 THEN [bits |-> <<>>, exp |-> 0]
  ELSE LET n == Normalized(x.num, x.den, 0)
           q == QuotientBits(n.num, n.den)
       IN Double(q.bits, n.exp,
                 \/ 2 * q.rem > n.den
                 \/ 2 * q.rem = n.den /\ q.bits[SignificandBits] = 1)

\* The binary digits of a natural number, most significant first.
RECURSIVE BitsOf(_)
BitsOf(n) == IF n = 0 THEN <<>> ELSE Append(BitsOf(n \div 2), n % 2)

RECURSIVE IntegerOf(_)
IntegerOf(bits) ==
  IF Len(bits) = 0 THEN 0
  ELSE 2 * IntegerOf(SubSeq(bits, 1, Len(bits) - 1)) + bits[Len(bits)]

\* The bits from index i on times a small factor k, plus a carry from the
\* bits after them: the low bits of the result and the carry out of them.
RECURSIVE MultiplyBlock(_, _, _, _)
MultiplyBlock(bits, i, k, carry) ==
  IF i > Len(bits) THEN [bits |-> <<>>, carry |-> carry]
  ELSE LET rest == MultiplyBlock(bits, i + 1, k, carry)
           t == bits[i] * k + rest.carry
       IN [bits |-> <<t % 2>> \o rest.bits, carry |-> t \div 2]

\* The exact product of a significand with a small factor k >= 1, block by
\* block from the last bits to the first.
MultiplyBits(bits, k) ==
  LET p4 == MultiplyBlock(SubSeq(bits, 3 * Quarter + 1, Len(bits)), 1, k, 0)
      p3 == IF p4.carry >= 0
              THEN MultiplyBlock(SubSeq(bits, 2 * Quarter + 1, 3 * Quarter), 1, k, p4.carry)
              ELSE p4
      p2 == IF p3.carry >= 0
              THEN MultiplyBlock(SubSeq(bits, Quarter + 1, 2 * Quarter), 1, k, p3.carry)
              ELSE p3
      p1 == IF p2.carry >= 0
              THEN MultiplyBlock(SubSeq(bits, 1, Quarter), 1, k, p2.carry)
              ELSE p2
  IN BitsOf(p1.carry) \o p1.bits \o p2.bits \o p3.bits \o p4.bits

\* d * k in double arithmetic, for a small natural k >= 1.
DoubleTimes(d, k) ==
  IF Len(d.bits) = 0 THEN d
  ELSE LET product == MultiplyBits(d.bits, k)
           tail == SubSeq(product, SignificandBits + 1, Len(product))
       IN Double(SubSeq(product, 1, SignificandBits),
                 d.exp + Len(product) - SignificandBits,
                 /\ Len(tail) > 0
                 /\ tail[1] = 1
                 /\ \/ \E i \in 2..Len(tail) : tail[i] = 1
                    \/ product[SignificandBits] = 1)

\* Math.floor of a double >= 0, as an integer.
DoubleFloor(d) ==
  IF Len(d.bits) = 0 \/ d.exp <= 0 THEN 0
  ELSE IntegerOf(SubSeq(d.bits, 1, d.exp))

\* Math.floor(totalCost * 100) / 100: the double nearest to n / 100 is the
\* number written n / 100.
RoundDown(totalCost) ==
  Fraction(DoubleFloor(DoubleTimes(ToDouble(totalCost), Hundred)), Hundred)

\* BaseTransactionMapper.calculateTotalCost
CalculateTotalCost(totalKwh, tariffCost) ==
  Priced(RoundDown(Times(totalKwh, tariffCost)), Times(totalKwh, tariffCost), Zero,
         <<>>, <<>>)

\* Variant: the error leaves the function.
RethrowPricingError(calls, logs) == PricingThrown(calls, logs)

\* catch (error): log it and return a cost of 0.
CatchPricingError(calls, logs) ==
  Priced(Zero, NoNumber, NoNumber, calls, Append(logs, "error"))

\* The base cost of the charge method; an unknown method is logged.
BaseCost(charge_method, totalKwh, totalTimeHours, tariff) ==
  LET ratePerKwh == OrZero(tariff.pricePerKwh)
      ratePerMinute == OrZero(tariff.pricePerMin)
      rateFlat == OrZero(tariff.pricePerSession)
  IN CASE charge_method = "PER_KWH" -> Times(totalKwh, ratePerKwh)
       [] charge_method = "PER_MINUTE" ->
            Times(Times(totalTimeHours, Number(MinutesPerHour)), ratePerMinute)
       [] charge_method = "FLAT_RATE" -> rateFlat
       [] OTHER -> Zero

KnownChargeMethods == {"PER_KWH", "PER_MINUTE", "FLAT_RATE", "FREE"}

\* BaseTransactionMapper.calculateTotalCostFromDatabase
CalculateTotalCostFromDatabase(transaction, tariff, answers) ==
  LET totalKwh == OrZero(transaction.totalKwh)
      timed == Len(transaction.startTime) > 0 /\ Len(transaction.endTime) > 0
      totalTimeHours ==
        IF timed
          THEN Fraction(transaction.endTime[1] - transaction.startTime[1], MsPerHour)
          ELSE Zero
      billing == <<"citrine_extended_location">>
  IN IF transaction.locationId = 0
       THEN Priced(Zero, NoNumber, NoNumber, <<>>, <<"warn">>)
     ELSE IF answers.billing.throws
       THEN CatchPricingError(billing, <<>>)
     ELSE IF Len(answers.billing.rows) = 0
       THEN Priced(Zero, NoNumber, NoNumber, billing, <<"warn">>)
     ELSE
       LET row == answers.billing.rows[1]
           baseCost == BaseCost(row.charge_method, totalKwh, totalTimeHours, tariff)
           logs == IF row.charge_method \in KnownChargeMethods THEN <<>> ELSE <<"warn">>
           idles == Truthy(row.idle_rate) /\ timed
           idle ==
             IF idles
               THEN GetIdleDurationHours(transaction, transaction.startTime[1],
                                         transaction.endTime[1], answers.status)
               ELSE Priced(Zero, NoNumber, NoNumber, <<>>, <<>>)
           idleCost ==
             IF idles
               THEN Times(Times(idle.value, Number(MinutesPerHour)), row.idle_rate)
               ELSE Zero
       IN IF idle.thrown
            THEN CatchPricingError(billing \o idle.calls, logs \o idle.logs)
          ELSE Priced(RoundDown(Plus(baseCost, idleCost)), baseCost, idleCost,
                      billing \o idle.calls,
                      logs \o idle.logs \o (IF idles THEN <<"debug">> ELSE <<>>)
                        \o <<"debug">>)

\* ------------------------------------------------------ inputs and answers

\* The start of the session window; the window ends 6 or 8 minutes later.
SessionStart == Minutes(10)

\* 10.666
TenAndTwoThirds == Fraction(10666, 1000)

ChargedTransaction ==
  [locationId |-> 1, totalKwh |-> TenAndTwoThirds, startTime |-> <<SessionStart>>,
   endTime |-> <<SessionStart + Minutes(8)>>, stationId |-> "S1", evseId |-> 1,
   connectorId |-> 1, tenantId |-> 1]

\* Transactions that lack one of the identifiers of their connector.
UnidentifiedTransactions ==
  { [ChargedTransaction EXCEPT !.stationId = NoValue],
    [ChargedTransaction EXCEPT !.evseId = 0],
    [ChargedTransaction EXCEPT !.connectorId = 0],
    [ChargedTransaction EXCEPT !.tenantId = 0] }

\* Transactions with a session window.
TimedTransactions ==
  { ChargedTransaction,
    [ChargedTransaction EXCEPT !.endTime = <<SessionStart + Minutes(6)>>] }
    \cup UnidentifiedTransactions

PricedTransactions ==
  { [ChargedTransaction EXCEPT !.totalKwh = k, !.endTime = e] :
      k \in {NoNumber, TenAndTwoThirds, Number(3)},
      e \in {<<>>, <<SessionStart + Minutes(6)>>, <<SessionStart + Minutes(8)>>} }
    \cup { [ChargedTransaction EXCEPT !.locationId = 0],
           [ChargedTransaction EXCEPT !.startTime = <<>>] }
    \cup UnidentifiedTransactions

Tariffs ==
  { NoTariff,
    [present |-> TRUE, pricePerKwh |-> Number(1), pricePerMin |-> Fraction(1, 4),
     pricePerSession |-> TenAndTwoThirds],
    [present |-> TRUE, pricePerKwh |-> Fraction(1, 4), pricePerMin |-> NoNumber,
     pricePerSession |-> Fraction(58, 100)] }

BillingRows ==
  { [charge_method |-> m, idle_rate |-> r] :
      m \in KnownChargeMethods \cup {"PER_HOUR"},
      r \in {NoNumber, Fraction(1, 4)} }
    \cup { [charge_method |-> "FLAT_RATE", idle_rate |-> Zero],
           [charge_method |-> "FREE", idle_rate |-> Fraction(1, 2)] }

BillingResults == {Failed, Rows(<<>>)} \cup { Rows(<<row>>) : row \in BillingRows }

StatusNotification(minute, connectorStatus) ==
  [timestamp |-> SessionStart + Minutes(minute), connectorStatus |-> connectorStatus]

\* The rows the store may return for a window: in any order, and also
\* outside the window.
StatusNotifications ==
  { StatusNotification(minute, connectorStatus) :
      minute \in {-2, 0, 5, 8},
      connectorStatus \in {"Charging", "Preparing", "SuspendedEV"} }

StatusNotificationLists ==
  UNION { [1..n -> StatusNotifications] : n \in 0..MaxNotifications }

\* The status answers drawn while a whole cost is calculated.
SessionStatusLists ==
  { <<>>,
    <<StatusNotification(0, "Charging"), StatusNotification(5, "Preparing"),
      StatusNotification(8, "Charging")>>,
    <<StatusNotification(1, "SuspendedEVSE"), StatusNotification(4, "Charging"),
      StatusNotification(7, "SuspendedEV")>>,
    <<StatusNotification(5, "Available"), StatusNotification(0, "Preparing")>>,
    <<StatusNotification(-2, "SuspendedEVSE"), StatusNotification(7, "Finishing")>> }

StatusResults(lists) == {Failed} \cup { Rows(list) : list \in lists }

\* The answers a result depended on; the others are not kept.
ConsumedAnswers(answers, calls) ==
  [billing |-> IF \E i \in 1..Len(calls) : calls[i] = "citrine_extended_location"
                 THEN answers.billing ELSE NoPricingAnswers.billing,
   status |-> IF \E i \in 1..Len(calls) : calls[i] = "GET_STATUS_NOTIFICATIONS_IN_RANGE"
                THEN answers.status ELSE NoPricingAnswers.status]

PricingCall(fn, transaction, tariff) ==
  [NoPricing EXCEPT !.fn = fn, !.transaction = transaction, !.tariff = tariff]

PricingCalls ==
  { PricingCall("getIdleDurationHours", t, NoTariff) : t \in TimedTransactions }
    \cup { PricingCall("calculateTotalCostFromDatabase", t, tariff) :
             t \in PricedTransactions, tariff \in Tariffs }
    \cup { PricingCall("calculateTotalCost", t, tariff) :
             t \in { [NoTransactionDto EXCEPT !.totalKwh = k] :
                       k \in {Zero, TenAndTwoThirds, Fraction(58, 100)} },
             tariff \in { [NoTariff EXCEPT !.present = TRUE, !.pricePerKwh = r] :
                            r \in {Zero, Number(1), Fraction(1, 4)} } }

\* The function is applied to its input under the answers drawn.
Price(fn, answers, result) ==
  /\ pricing.fn = fn
  /\ ~pricing.result.done
  /\ pricing' = [pricing EXCEPT !.answers = ConsumedAnswers(answers, result.calls),
                                !.result = result]
  /\ UNCHANGED <<commandVars, eventVars, tokenVars, upsertVars, redisVars>>

GetIdleDurationHoursCall ==
  \E status \in StatusResults(StatusNotificationLists) :
    LET answers == [NoPricingAnswers EXCEPT !.status = status] IN
      Price("getIdleDurationHours", answers,
            GetIdleDurationHours(pricing.transaction, pricing.transaction.startTime[1],
                                 pricing.transaction.endTime[1], status))

CalculateTotalCostFromDatabaseCall ==
  \E billing \in BillingResults, status \in StatusResults(SessionStatusLists) :
    LET answers == [billing |-> billing, status |-> status] IN
      Price("calculateTotalCostFromDatabase", answers,
            CalculateTotalCostFromDatabase(pricing.transaction, pricing.tariff, answers))

CalculateTotalCostCall ==
  Price("calculateTotalCost", NoPricingAnswers,
        CalculateTotalCost(pricing.transaction.totalKwh, pricing.tariff.pricePerKwh))

PricingInit ==
  /\ NoCommands
  /\ NoChanges
  /\ NoEvents
  /\ NoTokenCalls
  /\ NoUpserts
  /\ pricing \in PricingCalls

PricingNext ==
  \/ GetIdleDurationHoursCall
  \/ CalculateTotalCostFromDatabaseCall
  \/ CalculateTotalCostCall

PricingSpec == PricingInit /\ [][PricingNext]_vars

\* ------------------------------------------------ claims on the idle sweep

Calculated(fn) == pricing.fn = fn /\ pricing.result.done

\* The status events the store answered, as answered.
StatusEvents == pricing.answers.status.rows

WindowStart == pricing.transaction.startTime[1]
WindowEnd == pricing.transaction.endTime[1]

\* The events are in ascending order of time and inside the window.
AscendingInsideWindow ==
  /\ \A i \in 1..Len(StatusEvents) :
       StatusEvents[i].timestamp >= WindowStart /\ StatusEvents[i].timestamp <= WindowEnd
  /\ \A i \in 1..(Len(StatusEvents) - 1) :
       StatusEvents[i].timestamp <= StatusEvents[i + 1].timestamp

\* The spans of the events from index i on whose own status is idle: up to
\* the next event, and up to the end of the window for the last event.
RECURSIVE IdleSpans(_)
IdleSpans(i) ==
  IF i > Len(StatusEvents) THEN 0
  ELSE (IF StatusEvents[i].connectorStatus \in {"SuspendedEVSE", "SuspendedEV", "Preparing"}
          THEN (IF i < Len(StatusEvents) THEN StatusEvents[i + 1].timestamp ELSE WindowEnd)
                 - StatusEvents[i].timestamp
          ELSE 0)
       + IdleSpans(i + 1)

\* The status events are known: the query was made and answered.
SweptWindow ==
  /\ Calculated("getIdleDurationHours")
  /\ Len(pricing.result.calls) > 0
  /\ ~pricing.answers.status.throws

ThreeMinuteExample ==
  /\ SweptWindow
  /\ WindowEnd = WindowStart + Minutes(8)
  /\ StatusEvents =
       <<[timestamp |-> WindowStart, connectorStatus |-> "Charging"],
         [timestamp |-> WindowStart + Minutes(5), connectorStatus |-> "Preparing"],
         [timestamp |-> WindowStart + Minutes(8), connectorStatus |-> "Charging"]>>

\* C21: over a window with ascending status events inside it, the idle
\* duration is the sum of the spans from an event to the next one (to the end
\* of the window for the last event) over exactly the events whose own status
\* is SuspendedEVSE, SuspendedEV or Preparing; Charging at t0, Preparing at
\* t0 + 5 min and Charging at t0 + 8 min over [t0, t0 + 8 min] give 3 minutes.
C21_IdleIsSumOfIdleSpans ==
  /\ (SweptWindow /\ AscendingInsideWindow) =>
       /\ ~pricing.result.thrown
       /\ pricing.result.value = Fraction(IdleSpans(1), MsPerHour)
  /\ ThreeMinuteExample => pricing.result.value = Fraction(3, MinutesPerHour)

\* An idle event is followed by another event, and the last event is idle.
C21_Witness ==
  /\ SweptWindow
  /\ AscendingInsideWindow
  /\ Len(StatusEvents) = 3
  /\ StatusEvents[1].connectorStatus = "Charging"
  /\ StatusEvents[2].connectorStatus = "Preparing"
  /\ StatusEvents[2].timestamp < StatusEvents[3].timestamp
  /\ StatusEvents[3].connectorStatus = "SuspendedEV"
  /\ StatusEvents[3].timestamp < WindowEnd
  /\ pricing.result.value = Fraction(IdleSpans(1), MsPerHour)
  /\ pricing.result.value # Zero

\* The transaction lacks the station, EVSE, connector or tenant identifier.
IdentifierMissing ==
  \/ pricing.transaction.stationId = NoValue
  \/ pricing.transaction.evseId = 0
  \/ pricing.transaction.connectorId = 0
  \/ pricing.transaction.tenantId = 0

\* C22: the idle calculator returns an idle duration of 0 when the sequence
\* of status events is empty, whatever the window, and when the transaction
\* lacks its station, EVSE, connector or tenant identifier.
C22_NoEventsNoIdentifiersNoIdle ==
  /\ (SweptWindow /\ StatusEvents = <<>>) =>
       ~pricing.result.thrown /\ pricing.result.value = Zero
  /\ (Calculated("getIdleDurationHours") /\ IdentifierMissing) =>
       ~pricing.result.thrown /\ pricing.result.value = Zero

\* The store answered the query of the shorter window with no event.
C22_Witness ==
  /\ SweptWindow
  /\ ~IdentifierMissing
  /\ WindowEnd = WindowStart + Minutes(6)
  /\ StatusEvents = <<>>
  /\ pricing.result.value = Zero

\* The events are in ascending order of time as the store answered them.
AscendingAsAnswered ==
  \A i \in 1..(Len(StatusEvents) - 1) :
    StatusEvents[i].timestamp <= StatusEvents[i + 1].timestamp

\* The events before the window, and those inside it (its ends included).
BeforeWindow ==
  { i \in 1..Len(StatusEvents) : StatusEvents[i].timestamp < WindowStart }

InsideWindow ==
  { i \in 1..Len(StatusEvents) : /\ StatusEvents[i].timestamp >= WindowStart
                                 /\ StatusEvents[i].timestamp <= WindowEnd }

IsIdle(connectorStatus) ==
  connectorStatus \in {"SuspendedEVSE", "SuspendedEV", "Preparing"}

\* The status the window is entered with: that of the last event before it.
EnteringStatus ==
  IF BeforeWindow = {} THEN ""
  ELSE StatusEvents[CHOOSE i \in BeforeWindow : \A j \in BeforeWindow : j <= i].connectorStatus

\* The span from the start of the window to its first event (to its end when
\* it has no event), counted when the window is entered idle.
EnteringSpan ==
  IF ~IsIdle(EnteringStatus) THEN 0
  ELSE IF InsideWindow = {} THEN WindowEnd - WindowStart
  ELSE StatusEvents[CHOOSE i \in InsideWindow : \A j \in InsideWindow : i <= j].timestamp
         - WindowStart

\* The idle spans of the events inside the window from index i on: up to the
\* next event inside the window, or up to the end of the window.
RECURSIVE InsideSpans(_)
InsideSpans(i) ==
  IF i > Len(StatusEvents) THEN 0
  ELSE (IF i \in InsideWindow /\ IsIdle(StatusEvents[i].connectorStatus)
          THEN (IF i + 1 \in InsideWindow THEN StatusEvents[i + 1].timestamp
                ELSE WindowEnd) - StatusEvents[i].timestamp
          ELSE 0)
       + InsideSpans(i + 1)

\* C32: over ascending status events, the idle duration is the entering span
\* (counted only when an event before sessionStart left an idle status, and
\* never when no event precedes the window) plus the idle spans of the events
\* from sessionStart to sessionEnd inclusive; events after sessionEnd add
\* nothing.
C32_SweepBoundaries ==
  (SweptWindow /\ AscendingAsAnswered) =>
    /\ ~pricing.result.thrown
    /\ pricing.result.value = Fraction(EnteringSpan + InsideSpans(1), MsPerHour)
    /\ (/\ BeforeWindow = {}
        /\ \A i \in InsideWindow : ~IsIdle(StatusEvents[i].connectorStatus)) =>
         pricing.result.value = Zero

\* C32 witness: Preparing two minutes before the window, Charging five
\* minutes into it and SuspendedEV after its end give five idle minutes.
C32_Witness ==
  /\ SweptWindow
  /\ WindowEnd = WindowStart + Minutes(6)
  /\ StatusEvents =
       <<[timestamp |-> WindowStart - Minutes(2), connectorStatus |-> "Preparing"],
         [timestamp |-> WindowStart + Minutes(5), connectorStatus |-> "Charging"],
         [timestamp |-> WindowStart + Minutes(8), connectorStatus |-> "SuspendedEV"]>>
  /\ pricing.result.value = Fraction(5, MinutesPerHour)

\* The orders in which the status events answered can be supplied.
Orderings ==
  { p \in [1..Len(StatusEvents) -> 1..Len(StatusEvents)] :
      \A i, j \in 1..Len(StatusEvents) : p[i] = p[j] => i = j }

Reordered(p) == [i \in 1..Len(StatusEvents) |-> StatusEvents[p[i]]]

\* The idle hours calculated for the same window from the events in an order.
IdleHoursOf(rows) ==
  GetIdleDurationHours(pricing.transaction, WindowStart, WindowEnd, Rows(rows)).value

\* No two of the status events have the same timestamp.
DistinctTimestamps ==
  \A i, j \in 1..Len(StatusEvents) :
    StatusEvents[i].timestamp = StatusEvents[j].timestamp => i = j

\* The idle duration is within 0 and the length of the window.
IdleWithinWindow ==
  (SweptWindow /\ WindowStart <= WindowEnd) =>
    /\ ~pricing.result.thrown
    /\ LessOrEqual(Zero, pricing.result.value)
    /\ LessOrEqual(pricing.result.value, Fraction(WindowEnd - WindowStart, MsPerHour))

\* Status events of distinct timestamps give the same idle duration in every
\* order.
OrderIndependentWithoutTies ==
  (SweptWindow /\ WindowStart <= WindowEnd /\ DistinctTimestamps) =>
    \A p \in Orderings : IdleHoursOf(Reordered(p)) = pricing.result.value

\* C39: for every window with sessionStart <= sessionEnd and every set of
\* status events, in any input order, the idle duration is at least 0 and at
\* most sessionEnd - sessionStart, and it is the same for every order in
\* which the events are supplied.
C39_IdleBoundedAndOrderIndependent ==
  (SweptWindow /\ WindowStart <= WindowEnd) =>
    /\ ~pricing.result.thrown
    /\ LessOrEqual(Zero, pricing.result.value)
    /\ LessOrEqual(pricing.result.value, Fraction(WindowEnd - WindowStart, MsPerHour))
    /\ \A p \in Orderings : IdleHoursOf(Reordered(p)) = pricing.result.value

\* ------------------------------------------------------ claims on the cost

\* A total was calculated from a base cost and an idle cost.
Billed ==
  /\ \/ Calculated("calculateTotalCostFromDatabase")
     \/ Calculated("calculateTotalCost")
  /\ pricing.result.baseCost # NoNumber

CostSum == Plus(pricing.result.baseCost, pricing.result.idleCost)

\* C23: the billed total is baseCost + idleCost rounded down to two decimals,
\* floor((baseCost + idleCost) * 100) / 100, so that
\* totalCost <= baseCost + idleCost < totalCost + 0.01; a base cost of 10.666
\* with no idle cost gives 10.66.
C23_TotalRoundedDown ==
  Billed =>
    /\ pricing.result.value =
         Fraction(MathFloor(Times(CostSum, Number(100))).num, 100)
    /\ LessOrEqual(pricing.result.value, CostSum)
    /\ Less(CostSum, Plus(pricing.result.value, Fraction(1, 100)))
    /\ (pricing.result.baseCost = Fraction(10666, 1000) /\ pricing.result.idleCost = Zero)
         => pricing.result.value = Fraction(1066, 100)

\* The request was made while the cost was calculated.
Requested(call) ==
  \E i \in 1..Len(pricing.result.calls) : pricing.result.calls[i] = call

BillingQueryFailed ==
  Requested("citrine_extended_location") /\ pricing.answers.billing.throws

BillingRowMissing ==
  /\ Requested("citrine_extended_location")
  /\ ~pricing.answers.billing.throws
  /\ pricing.answers.billing.rows = <<>>

StatusQueryFailed ==
  Requested("GET_STATUS_NOTIFICATIONS_IN_RANGE") /\ pricing.answers.status.throws

\* C24: calculateTotalCostFromDatabase never throws; a missing locationId, no
\* billing row for the location, a failing billing query and a failing
\* status-event query each yield a total cost of 0.
C24_LookupFailureCostsNothing ==
  Calculated("calculateTotalCostFromDatabase") =>
    /\ ~pricing.result.thrown
    /\ (\/ pricing.transaction.locationId = 0
        \/ BillingRowMissing
        \/ BillingQueryFailed
        \/ StatusQueryFailed) => pricing.result.value = Zero

\* The billing row was found and then the status-event query failed.
C24_Witness ==
  /\ Calculated("calculateTotalCostFromDatabase")
  /\ StatusQueryFailed
  /\ Len(pricing.answers.billing.rows) = 1
  /\ pricing.answers.billing.rows[1].charge_method = "FLAT_RATE"
  /\ ~pricing.result.thrown
  /\ pricing.result.value = Zero

\* --------------------------------------------- upsertToken and patchToken

\* The uids of the tokens a partner pushes: one is stored as it is, one is
\* longer than an idToken may be.
UpsertUids == {Repeat(<<"A">>, 2), Repeat(<<"0", "a", "7">>, MaxIdTokenLength + 1)}

\* token.last_updated of a PUT and of a PATCH; 0 stands for an absent one.
LastUpdates(fn) == IF fn = "upsertToken" THEN {1} ELSE {0, 2}

\* The authorization row created for a token of the partner (type RFID).
Authorization(idToken, last_updated) ==
  [idToken |-> idToken, idTokenType |-> "ISO14443", updatedAt |-> last_updated]

\* The rows GET_AUTHORIZATION_BY_TOKEN and UPDATE_TOKEN_MUTATION select.
Matching(rows, idToken) ==
  { i \in 1..Len(rows) : rows[i].idToken = idToken /\ rows[i].idTokenType = "ISO14443" }

\* upsertToken is called: the token is mapped and the query is requested.
UpsertToken(c) ==
  /\ upserts[c].pc = "idle"
  /\ \E uid \in UpsertUids, last_updated \in LastUpdates("upsertToken") :
       upserts' = [upserts EXCEPT ![c] =
         [IdleUpsert EXCEPT !.pc = "query", !.fn = "upsertToken",
                            !.idToken = NormalizeToken(uid),
                            !.last_updated = last_updated]]
  /\ UNCHANGED <<commandVars, eventVars, tokenVars, mapperVars, redisVars, authorizationStore>>

\* patchToken is called: without last_updated it throws at once.
PatchToken(c) ==
  /\ upserts[c].pc = "idle"
  /\ \E uid \in UpsertUids, last_updated \in LastUpdates("patchToken") :
       upserts' = [upserts EXCEPT ![c] =
         IF last_updated = 0
           THEN [IdleUpsert EXCEPT !.pc = "done", !.fn = "patchToken", !.thrown = TRUE]
           ELSE [IdleUpsert EXCEPT !.pc = "query", !.fn = "patchToken",
                                   !.idToken = NormalizeToken(uid),
                                   !.last_updated = last_updated]]
  /\ UNCHANGED <<commandVars, eventVars, tokenVars, mapperVars, redisVars, authorizationStore>>

\* The query returns the rows stored at this moment. upsertToken goes on to
\* update when there is one and to create when there is none; patchToken
\* throws UnknownTokenException when there is none.
GetAuthorizationByTokenReturns(c) ==
  /\ upserts[c].pc = "query"
  /\ LET found == Cardinality(Matching(authorizationStore.rows, upserts[c].idToken)) IN
     upserts' = [upserts EXCEPT ![c] =
       IF found > 0 THEN [@ EXCEPT !.pc = "update"]
       ELSE IF @.fn = "upsertToken" THEN [@ EXCEPT !.pc = "create"]
       ELSE [@ EXCEPT !.pc = "done", !.thrown = TRUE]]
  /\ UNCHANGED <<commandVars, eventVars, tokenVars, mapperVars, redisVars, authorizationStore>>

\* UPDATE_TOKEN_MUTATION returns: every selected row is updated.
UpdateTokenReturns(c) ==
  /\ upserts[c].pc = "update"
  /\ authorizationStore' = [authorizationStore EXCEPT !.rows =
       [i \in 1..Len(@) |->
          IF i \in Matching(@, upserts[c].idToken)
            THEN [@[i] EXCEPT !.updatedAt = upserts[c].last_updated]
            ELSE @[i]]]
  /\ upserts' = [upserts EXCEPT ![c].pc = "done"]
  /\ UNCHANGED <<commandVars, eventVars, tokenVars, mapperVars, redisVars>>

\* CREATE_AUTHORIZATION_MUTATION returns. A store that keeps the token unique
\* per partner rejects a second row, and the awaited request throws out of
\* upsertToken; another store inserts the row.
CreateAuthorizationReturns(c) ==
  /\ upserts[c].pc = "create"
  /\ IF /\ authorizationStore.unique
        /\ Matching(authorizationStore.rows, upserts[c].idToken) # {}
       THEN /\ upserts' = [upserts EXCEPT ![c].pc = "done", ![c].thrown = TRUE]
            /\ UNCHANGED authorizationStore
       ELSE /\ authorizationStore' = [authorizationStore EXCEPT !.rows =
                 Append(@, Authorization(upserts[c].idToken, upserts[c].last_updated))]
            /\ upserts' = [upserts EXCEPT ![c].pc = "done"]
  /\ UNCHANGED <<commandVars, eventVars, tokenVars, mapperVars, redisVars>>

\* The call has returned or thrown.
TokenPushSettled(c) ==
  /\ upserts[c].pc = "done"
  /\ upserts' = [upserts EXCEPT ![c] = IdleUpsert]
  /\ UNCHANGED <<commandVars, eventVars, tokenVars, mapperVars, redisVars, authorizationStore>>

\* No authorization exists yet; the store enforces uniqueness or not.
UpsertInit ==
  /\ NoCommands
  /\ NoChanges
  /\ NoEvents
  /\ NoTokenCalls
  /\ NoPrices
  /\ upserts = [c \in Callers |-> IdleUpsert]
  /\ authorizationStore \in [unique : BOOLEAN, rows : {<<>>}]

UpsertNext ==
  \E c \in Callers :
    \/ UpsertToken(c)
    \/ PatchToken(c)
    \/ GetAuthorizationByTokenReturns(c)
    \/ UpdateTokenReturns(c)
    \/ CreateAuthorizationReturns(c)
    \/ TokenPushSettled(c)

UpsertSpec == UpsertInit /\ [][UpsertNext]_vars

\* ------------------------------------------------------ claims on upserts

Stored(idToken) == Matching(authorizationStore.rows, idToken)

\* The normalized token ids of the pushes.
PushedIdTokens == { NormalizeToken(uid) : uid \in UpsertUids }

\* C25: after any sequence of upsertToken calls, concurrent ones included,
\* there is at most one Authorization record per normalized token id, type
\* and partner: the first upsert creates it and every later upsert of the
\* same token updates it, so that no upsert fails on the record of another;
\* no upsert or patch deletes a record.
C25_OneAuthorizationPerToken ==
  /\ \A idToken \in PushedIdTokens : Cardinality(Stored(idToken)) <= 1
  /\ \A c \in Callers : upserts[c].fn = "upsertToken" => ~upserts[c].thrown

\* ================================================================ RedisCache

\* get calls that set notifications started and that have not returned.
MaxGets == 2

\* The namespaces a caller names (NoValue: none), and the values cached.
CacheNamespaces == {NoValue, "cmd"}

CachedValues == {"v1"}

\* namespace = namespace || 'default'
EffectiveNamespace(namespace) == IF Falsy(namespace) THEN "default" ELSE namespace

\* key = `${namespace}:${key}`
Prefixed(key, namespace) == <<EffectiveNamespace(namespace)>> \o key

\* The key and namespace arguments of the cache calls: the key "k", and a key
\* that itself starts with the name of the namespace.
CacheCalls ==
  { [key |-> <<"k">>, namespace |-> n] : n \in CacheNamespaces }
    \cup { [key |-> <<EffectiveNamespace(n), "k">>, namespace |-> n] :
             n \in CacheNamespaces }

\* RedisCache.get without a classConstructor: the value of the prefixed key,
\* null when Redis holds none.
Get(values, key, namespace) ==
  LET result == values[Prefixed(key, namespace)]
  IN IF Falsy(result) THEN NoValue ELSE result

\* resolve(value): the first call settles the promise, later calls do nothing.
Resolve(change, value, by) ==
  [change EXCEPT !.resolves = @ + 1,
                 !.promise = IF @ = <<>> THEN <<value>> ELSE @,
                 !.resolvedBy = IF change.promise = <<>> THEN by ELSE @]

\* cleanup(): once; clears the timer when it is set and asks to unsubscribe.
Cleanup(change) ==
  IF change.isResolved THEN change
  ELSE [change EXCEPT !.isResolved = TRUE,
                      !.timer = IF @ = "armed" THEN "cleared" ELSE @,
                      !.subscription = IF @ = "active" THEN "leaving" ELSE @]

\* messageHandler up to its first await: a set starts a get, a del or an
\* expire resolves null, any other event does nothing.
MessageHandler(change, message) ==
  IF change.isResolved THEN change
  ELSE CASE message = "set" -> [change EXCEPT !.gets.set = @ + 1]
         [] message \in {"del", "expire"} -> Cleanup(Resolve(change, NoValue, message))
         [] OTHER -> change

\* Redis publishes an event of a key on the key's channel: the handler
\* subscribed to `__keyspace@0__:${key}` runs.
Notify(change, key, message) ==
  IF change.subscription \in {"active", "leaving", "kept"} /\ key = change.key
    THEN MessageHandler(change, message) ELSE change

\* RedisCache.set: SET writes the value and publishes set; with expireSeconds
\* the key gets a time to live and Redis publishes expire as well.
CacheSet ==
  /\ redis.change.gets.set < MaxGets
  /\ \E call \in CacheCalls, value \in CachedValues, expireSeconds \in BOOLEAN :
       LET key == Prefixed(call.key, call.namespace)
           onSet == Notify(redis.change, key, "set")
       IN redis' = [redis EXCEPT
                      !.values[key] = value,
                      !.expiring = IF expireSeconds THEN @ \cup {key} ELSE @ \ {key},
                      !.change = IF expireSeconds THEN Notify(onSet, key, "expire")
                                 ELSE onSet]
  /\ UNCHANGED <<commandVars, eventVars, tokenVars, mapperVars, upsertVars>>

\* RedisCache.remove: DEL; Redis publishes del when the key existed.
CacheRemove ==
  /\ \E call \in CacheCalls :
       LET key == Prefixed(call.key, call.namespace) IN
       /\ redis.values[key] # NoValue
       /\ redis' = [redis EXCEPT !.values[key] = NoValue,
                                 !.expiring = @ \ {key},
                                 !.change = Notify(@, key, "del")]
  /\ UNCHANGED <<commandVars, eventVars, tokenVars, mapperVars, upsertVars>>

\* The time to live of a key ends: Redis deletes it and publishes expired.
KeyExpired ==
  /\ \E key \in redis.expiring :
       redis' = [redis EXCEPT !.values[key] = NoValue,
                              !.expiring = @ \ {key},
                              !.change = Notify(@, key, "expired")]
  /\ UNCHANGED <<commandVars, eventVars, tokenVars, mapperVars, upsertVars>>

\* onChange(key, waitSeconds, namespace): namespace and key are reassigned
\* and initialize() is started.
OnChange ==
  /\ redis.change.pc = "idle"
  /\ \E namespace \in CacheNamespaces :
       redis' = [redis EXCEPT !.change =
         [NoChange EXCEPT !.pc = "subscribing",
                          !.passed = [key |-> <<"k">>, namespace |-> namespace],
                          !.key = Prefixed(<<"k">>, namespace),
                          !.namespace = EffectiveNamespace(namespace)]]
  /\ UNCHANGED <<commandVars, eventVars, tokenVars, mapperVars, upsertVars>>

\* getSubscriber() and subscribe() return: the handler is subscribed, or the
\* error is logged and null resolved.
SubscribeReturns ==
  /\ redis.change.pc = "subscribing"
  /\ \E fails \in BOOLEAN :
       redis' = [redis EXCEPT !.change =
         IF fails
           THEN Cleanup(Resolve([@ EXCEPT !.pc = "done", !.logs = @ \cup {"setup"}],
                                NoValue, "setup"))
           ELSE [@ EXCEPT !.pc = "arming", !.subscription = "active"]]
  /\ UNCHANGED <<commandVars, eventVars, tokenVars, mapperVars, upsertVars>>

\* initialize() goes on after the await: setTimeout.
TimerArmed ==
  /\ redis.change.pc = "arming"
  /\ redis' = [redis EXCEPT !.change.pc = "waiting", !.change.timer = "armed"]
  /\ UNCHANGED <<commandVars, eventVars, tokenVars, mapperVars, upsertVars>>

\* The timeout callback up to its await: a get is started unless resolved.
TimerFires ==
  /\ redis.change.timer = "armed"
  /\ redis' = [redis EXCEPT !.change =
       IF @.isResolved THEN [@ EXCEPT !.timer = "fired"]
       ELSE [@ EXCEPT !.timer = "fired", !.gets.timeout = @ + 1]]
  /\ UNCHANGED <<commandVars, eventVars, tokenVars, mapperVars, upsertVars>>

\* this.get(key, namespace, classConstructor) returns to the set handler or
\* to the timeout callback: the value is resolved; an error is logged, and
\* on the timeout null is resolved.
GetReturns ==
  /\ \E origin \in {"set", "timeout"}, throws \in BOOLEAN :
       /\ redis.change.gets[origin] > 0
       /\ LET returned == [redis.change EXCEPT !.gets[origin] = @ - 1]
              value == Get(redis.values, redis.change.key, redis.change.namespace)
          IN redis' = [redis EXCEPT !.change =
               IF ~throws THEN Cleanup(Resolve(returned, value, origin))
               ELSE IF origin = "set"
                 THEN [returned EXCEPT !.logs = @ \cup {"set"}]
               ELSE Cleanup(Resolve([returned EXCEPT !.logs = @ \cup {"timeout"}],
                                    NoValue, "timeoutError"))]
  /\ UNCHANGED <<commandVars, eventVars, tokenVars, mapperVars, upsertVars>>

\* subscriber.unsubscribe(channel) returns; a failure is logged.
Unsubscribed ==
  /\ redis.change.subscription = "leaving"
  /\ \E fails \in BOOLEAN :
       redis' = [redis EXCEPT !.change =
         IF fails THEN [@ EXCEPT !.subscription = "kept",
                                 !.logs = @ \cup {"unsubscribe"}]
         ELSE [@ EXCEPT !.subscription = "left"]]
  /\ UNCHANGED <<commandVars, eventVars, tokenVars, mapperVars, upsertVars>>

\* The caller has the resolved value and nothing of the invocation is left
\* running.
ChangeSettled ==
  /\ redis.change.isResolved
  /\ redis.change.pc \in {"waiting", "done"}
  /\ redis.change.gets = NoChange.gets
  /\ redis.change.subscription # "leaving"
  /\ redis.change.timer # "armed"
  /\ redis' = [redis EXCEPT !.change = NoChange]
  /\ UNCHANGED <<commandVars, eventVars, tokenVars, mapperVars, upsertVars>>

CacheInit == CommandInit

CacheNext ==
  \/ CacheSet
  \/ CacheRemove
  \/ KeyExpired
  \/ OnChange
  \/ SubscribeReturns
  \/ TimerArmed
  \/ TimerFires
  \/ GetReturns
  \/ Unsubscribed
  \/ ChangeSettled

CacheSpec == CacheInit /\ [][CacheNext]_vars

\* ---------------------------------------------------- claims on onChange

\* The promise of the running onChange resolves in this step.
Resolves == redis.change.promise = <<>> /\ redis'.change.promise # <<>>

\* A resolved promise keeps its value for as long as the invocation lasts.
ResolvedOnce ==
  (redis.change.promise # <<>> /\ redis'.change.pc # "idle") =>
    redis'.change.promise = redis.change.promise

\* A del or an expire notification resolves null.
RemovalResolvesNull ==
  (Resolves /\ redis'.change.resolvedBy \in {"del", "expire"}) =>
    redis'.change.promise = <<NoValue>>

\* The promise of onChange resolves at most once, a del or expire
\* notification resolves null, and a set notification or the timeout
\* resolves what get returns for the key onChange has after its own
\* prefixing, under the same namespace: the key with the prefix twice.
ResolvesValueOfPrefixedKey ==
  [][/\ ResolvedOnce
     /\ RemovalResolvesNull
     /\ (Resolves /\ redis'.change.resolvedBy \in {"set", "timeout"}) =>
          redis'.change.promise =
            <<Get(redis'.values, Prefixed(redis'.change.passed.key,
                                          redis'.change.passed.namespace),
                  redis'.change.passed.namespace)>>]_vars

\* C40: the promise of onChange resolves at most once whatever notifications
\* and timeout occur; a del or expire notification resolves null; a set
\* notification or the timeout resolves the value that get(key, namespace)
\* returns for the key and namespace that were passed to onChange.
C40_ResolvesOnceWithValueOfKey ==
  [][/\ ResolvedOnce
     /\ RemovalResolvesNull
     /\ (Resolves /\ redis'.change.resolvedBy \in {"set", "timeout"}) =>
          redis'.change.promise =
            <<Get(redis'.values, redis'.change.passed.key,
                  redis'.change.passed.namespace)>>]_vars

====
